---- MODULE Spec2Model ----
(***************************************************************************)
(* A model of the Go generator for GraphQL documents (package golang).     *)
(*                                                                         *)
(* Text is modelled as a sequence of tokens.  A token is a string; the     *)
(* line terminator is always the token "\n" on its own and every tab of    *)
(* the indent is the token "\t" on its own, so that the bytes of a text    *)
(* are the concatenation of its tokens (Bytes) and its lines are the       *)
(* tokens between two "\n" (TokLines).                                     *)
(***************************************************************************)
EXTENDS Integers, Sequences, FiniteSets, TLC

VARIABLES
    mutex,      \* Generator.Mutex: 0 when free, else the caller holding it
    g,          \* Generator: [buf |-> bytes.Buffer contents, indent |-> depth]
    pc,         \* per caller: the position of its Generate call
    call,       \* per caller: the locals of its Generate call
    sink,       \* per caller: what the caller's context (the sink) has seen
    result,     \* what the Generate call that has just ended gave back
    optIn,      \* getOptions alone: its arguments
    optOut,     \* getOptions alone: what it gave back
    emitIn      \* one emitter or printer alone: its arguments

vars == <<mutex, g, pc, call, sink, result, optIn, optOut, emitIn>>

(***************************************************************************)
(* Bounds of the model.                                                    *)
(***************************************************************************)
NumProcs == 2
MaxDecls == 3
MaxDepth == 3
MaxList == 3

(***************************************************************************)
(* Text helpers.                                                           *)
(***************************************************************************)
RECURSIVE Bytes(_)
Bytes(toks) ==
    IF Len(toks) = 0 THEN ""
    ELSE IF Len(toks) = 1 THEN toks[1]
    ELSE LET h == Len(toks) \div 2
         IN  Bytes(SubSeq(toks, 1, h)) \o Bytes(SubSeq(toks, h + 1, Len(toks)))

RECURSIVE Tabs(_)
Tabs(n) == IF n = 0 THEN <<>> ELSE <<"\t">> \o Tabs(n - 1)

CountTok(toks, t) == Cardinality({i \in 1..Len(toks) : toks[i] = t})

(***************************************************************************)
(* The emission buffer: bytes.Buffer plus the indent.                      *)
(***************************************************************************)
EmptyG == [buf |-> <<>>, indent |-> 0]

Write(gen, toks) == [gen EXCEPT !.buf = @ \o toks]

WriteByte(gen, c) == Write(gen, <<c>>)

WriteIndent(gen) == Write(gen, Tabs(gen.indent))

typeSuffix == "Type"

(***************************************************************************)
(* The arguments of P are values of any type; P writes those whose dynamic *)
(* type it has a case for.                                                 *)
(***************************************************************************)
Str(s) == [typ |-> "string", val |-> s]

Rune(r) == [typ |-> "rune", val |-> r]

ByteSlice(b) == [typ |-> "[]byte", val |-> b]

IdentPtr(name) == [typ |-> "*ast.Ident", val |-> name]

PTypes == {"[]byte", "byte", "rune", "string", "bool", "int", "float64"}

RECURSIVE PParts(_, _)
PParts(gen, parts) ==
    IF parts = <<>> THEN gen
    ELSE LET s == Head(parts)
         IN  PParts(IF s.typ \in PTypes THEN Write(gen, <<s.val>>) ELSE gen, Tail(parts))

P(gen, parts) == WriteByte(PParts(WriteIndent(gen), parts), "\n")

In(gen) == [gen EXCEPT !.indent = @ + 1]

Out(gen) == IF gen.indent > 0 THEN [gen EXCEPT !.indent = @ - 1] ELSE gen

\* a faulty Reset, which clears the indent and keeps the buffer
ResetKeepsBuffer(gen) == [gen EXCEPT !.indent = 0]

Reset(gen) == [buf |-> <<>>, indent |-> 0]

(***************************************************************************)
(* No condition of an emitter reads the Generator, so an emitter is        *)
(* modelled as the sequence of calls it makes on the Generator, in order:  *)
(*   CallP(parts)       g.P(parts...)                                      *)
(*   CallWrite(s)       g.WriteString(s), g.WriteByte(c), g.Write(b)       *)
(*   CallWriteIndent    g.Write(g.indent)                                  *)
(*   CallIn, CallOut    g.In(), g.Out()                                    *)
(* and Exec makes the calls on a Generator.                                *)
(***************************************************************************)
CallP(parts) == <<[op |-> "P", parts |-> parts]>>

CallWrite(s) == <<[op |-> "Write", toks |-> <<s>>]>>

CallWriteToks(toks) == <<[op |-> "Write", toks |-> toks]>>

CallWriteIndent == <<[op |-> "WriteIndent"]>>

CallIn == <<[op |-> "In"]>>

CallOut == <<[op |-> "Out"]>>

ExecCall(gen, c) ==
    CASE c.op = "P" -> P(gen, c.parts)
      [] c.op = "Write" -> Write(gen, c.toks)
      [] c.op = "WriteIndent" -> WriteIndent(gen)
      [] c.op = "In" -> In(gen)
      [] c.op = "Out" -> Out(gen)

\* The calls lo..hi are made in order: the first half, then the second half
\* on the Generator the first half has left.  (Each Generator is drawn from
\* the set that holds it alone, so that it is a value, computed once, when
\* the calls that follow are made on it.)
RECURSIVE ExecRange(_, _, _, _)
ExecRange(gen, calls, lo, hi) ==
    IF lo > hi THEN gen
    ELSE IF lo = hi THEN ExecCall(gen, calls[lo])
    ELSE LET m == (lo + hi) \div 2
         IN  CHOOSE g2 \in {ExecRange(g1, calls, m + 1, hi) :
                               g1 \in {ExecRange(gen, calls, lo, m)}} : TRUE

Exec(gen, calls) ==
    CHOOSE g2 \in {ExecRange(g0, cs, 1, Len(cs)) : g0 \in {gen}, cs \in {calls}} : TRUE

(***************************************************************************)
(* Documentation groups.  A nil *ast.DocGroup has isNil; Text() of a       *)
(* non-nil group is its text, which ends with a line terminator unless it  *)
(* is empty.                                                               *)
(***************************************************************************)
NilDoc == [isNil |-> TRUE, text |-> <<>>]

DocOf(text) == [isNil |-> FALSE, text |-> text]

Text(doc) == doc.text

\* text[:len(text)-1]
DropLast(text) == SubSeq(text, 1, Len(text) - 1)

printDescr(doc) ==
    LET text == Text(doc)
    IN  IF Len(text) > 0
        THEN CallWriteIndent \o CallWrite("Description: \"") \o CallWriteToks(DropLast(text))
                \o CallWrite("\"") \o CallWrite(",")
        ELSE <<>>

(***************************************************************************)
(* Type references: *ast.Ident, *ast.List, *ast.NonNull.                   *)
(***************************************************************************)
Ident(name) == [k |-> "Ident", name |-> name]

ListOf(t) == [k |-> "List", of |-> t]

NonNullOf(t) == [k |-> "NonNull", of |-> t]

BuiltinName(name) ==
    CASE name = "Int" -> "graphql.Int"
      [] name = "Float" -> "graphql.Float"
      [] name = "String" -> "graphql.String"
      [] name = "Boolean" -> "graphql.Boolean"
      [] name = "ID" -> "graphql.ID"
      [] OTHER -> name \o "Type"

\* a faulty printType, which opens a non-null wrapper as a list
RECURSIVE printTypeListForNonNull(_)
printTypeListForNonNull(typ) ==
    CASE typ.k = "Ident" -> CallWrite(BuiltinName(typ.name))
      [] typ.k = "List" ->
            CallWrite("graphql.NewList(") \o printTypeListForNonNull(typ.of) \o CallWrite(")")
      [] typ.k = "NonNull" ->
            CallWrite("graphql.NewList(") \o printTypeListForNonNull(typ.of) \o CallWrite(")")
      [] OTHER -> <<>>

RECURSIVE printType(_)
printType(typ) ==
    CASE typ.k = "Ident" -> CallWrite(BuiltinName(typ.name))
      [] typ.k = "List" -> CallWrite("graphql.NewList(") \o printType(typ.of) \o CallWrite(")")
      [] typ.k = "NonNull" ->
            CallWrite("graphql.NewNonNull(") \o printType(typ.of) \o CallWrite(")")
      [] OTHER -> <<>>

\* the calls of printType that printType(typ) makes, itself not counted:
\* one at line 733 or 744, and those that call makes
RECURSIVE printTypeCalls(_)
printTypeCalls(typ) ==
    CASE typ.k = "Ident" -> 0
      [] typ.k = "List" -> 1 + printTypeCalls(typ.of)
      [] typ.k = "NonNull" -> 1 + printTypeCalls(typ.of)
      [] OTHER -> 0

(***************************************************************************)
(* Literals: *ast.BasicLit, *ast.ListLit, *ast.ObjLit, *ast.CompositeLit.  *)
(***************************************************************************)
BasicLit(value) == [k |-> "BasicLit", value |-> value]

ListLit(vals) == [k |-> "ListLit", vals |-> vals]

ObjLit(fields) == [k |-> "ObjLit", fields |-> fields]

CompositeLit(value) == [k |-> "CompositeLit", value |-> value]

NilLit == [k |-> "nil"]

RECURSIVE printVal(_)
RECURSIVE printListVals(_, _, _)
RECURSIVE printObjFields(_, _, _)
\* a faulty loop, which writes the separator after the last value too
RECURSIVE printListValsTrailing(_, _, _)
printListValsTrailing(vals, i, vLen) ==
    IF i >= Len(vals) THEN <<>>
    ELSE printVal(vals[i + 1])
            \o CallWrite(",") \o CallWrite(" ")
            \o printListValsTrailing(vals, i + 1, vLen)

\* the loop over vals; i counts from 0
printListVals(vals, i, vLen) ==
    IF i >= Len(vals) THEN <<>>
    ELSE printVal(vals[i + 1])
            \o (IF i # vLen THEN CallWrite(",") \o CallWrite(" ") ELSE <<>>)
            \o printListVals(vals, i + 1, vLen)

\* the loop over v.Fields; i counts from 0
printObjFields(fields, i, pLen) ==
    IF i >= Len(fields) THEN <<>>
    ELSE CallWrite(fields[i + 1].key) \o CallWrite(": ")
            \o printVal(fields[i + 1].val)
            \o (IF i # pLen THEN CallWrite(",") ELSE <<>>)
            \o CallWrite(" ")
            \o printObjFields(fields, i + 1, pLen)

printVal(val) ==
    CASE val.k = "BasicLit" -> CallWrite(val.value)
      [] val.k = "ListLit" ->
            CallWrite("[]interface{}{")
                \o printListVals(val.vals, 0, Len(val.vals) - 1)
                \o CallWrite("}")
      [] val.k = "ObjLit" ->
            CallWrite("{") \o CallWrite(" ")
                \o printObjFields(val.fields, 0, Len(val.fields) - 1)
                \o CallWrite("}")
      [] val.k = "CompositeLit" -> printVal(val.value)
      [] OTHER -> <<>>

\* the calls of printVal that printVal(val) makes, itself not counted: one
\* per value of a list (line 771), one per field of an object (line 788),
\* one on the literal inside a composite literal (lines 800-804), and those
\* these calls make
RECURSIVE printValCalls(_)
RECURSIVE printValCallsOf(_)
printValCallsOf(vals) ==
    IF vals = <<>> THEN 0
    ELSE 1 + printValCalls(Head(vals)) + printValCallsOf(Tail(vals))

printValCalls(val) ==
    CASE val.k = "BasicLit" -> 0
      [] val.k = "ListLit" -> printValCallsOf(val.vals)
      [] val.k = "ObjLit" -> printValCallsOf([i \in 1..Len(val.fields) |-> val.fields[i].val])
      [] val.k = "CompositeLit" -> 1 + printValCalls(val.value)
      [] OTHER -> 0

(***************************************************************************)
(* Declarations.  Every declaration carries the fields of all kinds; a     *)
(* kind reads only its own.  An optional list (Args) is [isNil, list].     *)
(***************************************************************************)
NilList == [isNil |-> TRUE, list |-> <<>>]

ListPtr(list) == [isNil |-> FALSE, list |-> list]

\* *ast.InputValue: an argument or an input field
InputValue(name, typ, default, doc) ==
    [name |-> name, type |-> typ, default |-> default, doc |-> doc]

\* *ast.Field: an object or interface field, or an enum value
Field(name, typ, args, doc) ==
    [name |-> name, type |-> typ, args |-> args, doc |-> doc]

Decl(kind, name, doc, interfaces, fields, members, locs, args) ==
    [kind |-> kind, name |-> name, doc |-> doc, interfaces |-> interfaces,
     fields |-> fields, members |-> members, locs |-> locs, args |-> args]

\* the parts of P for text[:len(text)-1]
TextParts(text) == [i \in 1..Len(DropLast(text)) |-> Str(DropLast(text)[i])]

(***************************************************************************)
(* generateScalar                                                          *)
(***************************************************************************)
generateScalar(name, descr, doc, ts) ==
    CallP(<<Str("NewScalar(graphql.ScalarConfig{")>>)
        \o CallIn
        \o CallP(<<Str("Name: \""), Str(name), Str("\",")>>)
        \o (IF ~doc.isNil /\ descr /\ Len(Text(doc)) > 0
            THEN CallP(<<Str("Description: \"")>> \o TextParts(Text(doc)) \o <<Str("\",")>>)
            ELSE <<>>)
        \o CallP(<<Str("Serialize: func(value interface{}) interface{} { return nil }, // TODO")>>)
        \o CallOut
        \o CallP(<<Str("})")>>)

(***************************************************************************)
(* Arguments, as generateObject and generateDirective print them.          *)
(***************************************************************************)
printArg(descr, a) ==
    CallP(<<Rune("\""), Str(a.name), Rune("\""), Str(": &graphql.ArgumentConfig{")>>)
        \o CallIn
        \o CallWriteIndent \o CallWrite("Type: ")
        \o printType(a.type)
        \o CallWrite(",") \o CallWrite("\n")
        \o (IF a.default.k # "nil"
            THEN CallWriteIndent \o CallWrite("DefaultValue: ") \o printVal(a.default)
                    \o CallWrite(",") \o CallWrite("\n")
            ELSE <<>>)
        \o (IF ~a.doc.isNil /\ descr THEN printDescr(a.doc) \o CallWrite("\n") ELSE <<>>)
        \o CallOut
        \o CallP(<<Str("},")>>)

RECURSIVE printArgs(_, _)
printArgs(descr, list) ==
    IF list = <<>> THEN <<>>
    ELSE printArg(descr, Head(list)) \o printArgs(descr, Tail(list))

(***************************************************************************)
(* generateObject                                                          *)
(***************************************************************************)
RECURSIVE objectInterfaces(_)
objectInterfaces(inters) ==
    IF inters = <<>> THEN <<>>
    ELSE CallP(<<Str(Head(inters)), ByteSlice(typeSuffix), Str(",")>>)
            \o objectInterfaces(Tail(inters))

objectField(descr, f) ==
    CallP(<<Rune("\""), Str(f.name), Rune("\""), Str(": &graphql.Field{")>>)
        \o CallIn
        \o CallWriteIndent \o CallWrite("Type: ")
        \o printType(f.type)
        \o CallWrite(",") \o CallWrite("\n")
        \o (IF ~f.args.isNil
            THEN CallP(<<Str("Args: graphql.FieldConfigArgument{")>>)
                    \o CallIn
                    \o printArgs(descr, f.args.list)
                    \o CallOut
                    \o CallP(<<Str("},")>>)
            ELSE <<>>)
        \o CallP(<<Str("Resolve: func(p graphql.ResolveParams) (interface{}, error) { return nil, nil }, // TODO")>>)
        \o (IF ~f.doc.isNil /\ descr THEN printDescr(f.doc) \o CallWrite("\n") ELSE <<>>)
        \o CallOut
        \o CallP(<<Str("},")>>)

RECURSIVE objectFields(_, _)
objectFields(descr, list) ==
    IF list = <<>> THEN <<>>
    ELSE objectField(descr, Head(list)) \o objectFields(descr, Tail(list))

generateObject(name, descr, doc, ts) ==
    LET interLen == Len(ts.interfaces)
    IN  CallP(<<Str("NewObject(graphql.ObjectConfig{")>>)
            \o CallIn
            \o CallP(<<Str("Name: \""), Str(name), Str("\",")>>)
            \o (IF interLen = 1
                THEN CallWriteIndent \o CallWrite("Interfaces: []*graphql.Interface{ ")
                        \o CallWrite(ts.interfaces[1]) \o CallWrite(typeSuffix)
                        \o CallWrite(" ") \o CallWrite("}") \o CallWrite(",") \o CallWrite("\n")
                ELSE <<>>)
            \o (IF interLen > 1
                THEN CallWriteIndent \o CallWrite("Interfaces: []*graphql.Interface{")
                        \o CallWrite("\n")
                        \o CallIn
                        \o objectInterfaces(ts.interfaces)
                        \o CallOut
                        \o CallP(<<Str("},")>>)
                ELSE <<>>)
            \o CallP(<<Str("Fields: graphql.Fields{")>>)
            \o CallIn
            \o objectFields(descr, ts.fields)
            \o CallOut
            \o CallP(<<Str("},")>>)
            \o (IF ~doc.isNil /\ descr THEN printDescr(doc) \o CallWrite("\n") ELSE <<>>)
            \o CallOut
            \o CallP(<<Str("})")>>)

(***************************************************************************)
(* generateInterface                                                       *)
(***************************************************************************)
interfaceArg(descr, a) ==
    CallP(<<Rune("\""), Str(a.name), Rune("\""), Str(": &graphql.ArgumentConfig{")>>)
        \o CallIn
        \o CallWriteIndent \o CallWrite("Type: ")
        \o printType(a.type)
        \o (IF a.default.k # "nil"
            THEN CallWrite("\n")
                    \o CallWriteIndent \o CallWrite("DefaultValue: ") \o printVal(a.default)
                    \o CallWrite(",") \o CallWrite("\n")
            ELSE <<>>)
        \o (IF ~a.doc.isNil /\ descr THEN printDescr(a.doc) \o CallWrite("\n") ELSE <<>>)
        \o CallOut
        \o CallP(<<Str("},")>>)

RECURSIVE interfaceArgs(_, _)
interfaceArgs(descr, list) ==
    IF list = <<>> THEN <<>>
    ELSE interfaceArg(descr, Head(list)) \o interfaceArgs(descr, Tail(list))

interfaceField(descr, f) ==
    CallP(<<Rune("\""), Str(f.name), Str("\": &graphql.Field{")>>)
        \o CallIn
        \o CallWriteIndent \o CallWrite("Type: ")
        \o printType(f.type)
        \o CallWrite(",") \o CallWrite("\n")
        \o (IF ~f.args.isNil
            THEN CallP(<<Str("Args: graphql.FieldConfigArgument{")>>)
                    \o CallIn
                    \o interfaceArgs(descr, f.args.list)
                    \o CallOut
                    \o CallP(<<Str("},")>>)
            ELSE <<>>)
        \o (IF ~f.doc.isNil /\ descr THEN printDescr(f.doc) \o CallWrite("\n") ELSE <<>>)
        \o CallOut
        \o CallP(<<Str("},")>>)

RECURSIVE interfaceFields(_, _)
interfaceFields(descr, list) ==
    IF list = <<>> THEN <<>>
    ELSE interfaceField(descr, Head(list)) \o interfaceFields(descr, Tail(list))

generateInterface(name, descr, doc, ts) ==
    CallP(<<Str("NewInterface(graphql.InterfaceConfig{")>>)
        \o CallIn
        \o CallP(<<Str("Name: \""), Str(name), Str("\",")>>)
        \o CallP(<<Str("Fields: graphql.Fields{")>>)
        \o CallIn
        \o interfaceFields(descr, ts.fields)
        \o CallOut
        \o CallP(<<Str("},")>>)
        \o (IF ~doc.isNil /\ descr THEN printDescr(doc) \o CallWrite("\n") ELSE <<>>)
        \o CallOut
        \o CallP(<<Str("})")>>)

(***************************************************************************)
(* generateUnion                                                           *)
(***************************************************************************)
RECURSIVE unionMembers(_)
unionMembers(mems) ==
    IF mems = <<>> THEN <<>>
    ELSE CallP(<<Str(Head(mems)), ByteSlice(typeSuffix), Rune(",")>>)
            \o unionMembers(Tail(mems))

generateUnion(name, descr, doc, ts) ==
    LET memsLen == Len(ts.members)
    IN  CallP(<<Str("NewUnion(graphql.UnionConfig{")>>)
            \o CallIn
            \o CallP(<<Str("Name: \""), Str(name), Str("\",")>>)
            \o (IF memsLen = 1
                THEN CallP(<<Str("Types: []*graphql.Object{ "), IdentPtr(ts.members[1]),
                             ByteSlice(typeSuffix), Str(" },")>>)
                ELSE <<>>)
            \o (IF memsLen > 1
                THEN CallP(<<Str("Types: []*graphql.Object{")>>)
                        \o CallIn
                        \o unionMembers(ts.members)
                        \o CallOut
                        \o CallP(<<Str("},")>>)
                ELSE <<>>)
            \o CallP(<<Str("ResolveType: func(p graphql.ResolveParams) *graphql.Object { return nil }, // TODO")>>)
            \o (IF ~doc.isNil /\ descr THEN printDescr(doc) \o CallWrite("\n") ELSE <<>>)
            \o CallOut
            \o CallP(<<Str("})")>>)

(***************************************************************************)
(* generateEnum                                                            *)
(***************************************************************************)
enumValue(descr, v) ==
    CallP(<<Rune("\""), Str(v.name), Rune("\""), Str(": &graphql.EnumValueConfig{")>>)
        \o CallIn
        \o CallP(<<Str("Value: \""), Str(v.name), Str("\",")>>)
        \o (IF ~v.doc.isNil /\ descr THEN printDescr(v.doc) \o CallWrite("\n") ELSE <<>>)
        \o CallOut
        \o CallP(<<Str("},")>>)

RECURSIVE enumValues(_, _)
enumValues(descr, list) ==
    IF list = <<>> THEN <<>>
    ELSE enumValue(descr, Head(list)) \o enumValues(descr, Tail(list))

\* a faulty emitter, which writes the description after the values
generateEnumDescrLast(name, descr, doc, ts) ==
    CallP(<<Str("NewEnum(graphql.EnumConfig{")>>)
        \o CallIn
        \o CallP(<<Str("Name: \""), Str(name), Str("\",")>>)
        \o CallP(<<Str("Values: graphql.EnumValueConfigMap{")>>)
        \o CallIn
        \o enumValues(descr, ts.fields)
        \o CallOut
        \o CallP(<<Str("},")>>)
        \o (IF ~doc.isNil /\ descr THEN printDescr(doc) \o CallWrite("\n") ELSE <<>>)
        \o CallOut
        \o CallP(<<Str("})")>>)

generateEnum(name, descr, doc, ts) ==
    CallP(<<Str("NewEnum(graphql.EnumConfig{")>>)
        \o CallIn
        \o CallP(<<Str("Name: \""), Str(name), Str("\",")>>)
        \o (IF ~doc.isNil /\ descr THEN printDescr(doc) \o CallWrite("\n") ELSE <<>>)
        \o CallP(<<Str("Values: graphql.EnumValueConfigMap{")>>)
        \o CallIn
        \o enumValues(descr, ts.fields)
        \o CallOut
        \o CallP(<<Str("},")>>)
        \o CallOut
        \o CallP(<<Str("})")>>)

(***************************************************************************)
(* generateInput                                                           *)
(***************************************************************************)
\* a faulty field, which calls g.Out() twice
inputFieldTwoOuts(descr, f) ==
    CallP(<<Rune("\""), Str(f.name), Rune("\""), Str(": &graphql.InputObjectFieldConfig{")>>)
        \o CallIn
        \o CallWriteIndent \o CallWrite("Type: ")
        \o printType(f.type)
        \o CallWrite(",") \o CallWrite("\n")
        \o (IF f.default.k # "nil"
            THEN CallWriteIndent \o CallWrite("DefaultValue: ") \o printVal(f.default)
                    \o CallWrite(",") \o CallWrite("\n")
            ELSE <<>>)
        \o CallOut
        \o CallOut
        \o (IF ~f.doc.isNil /\ descr THEN printDescr(f.doc) \o CallWrite("\n") ELSE <<>>)
        \o CallP(<<Str("},")>>)

inputField(descr, f) ==
    CallP(<<Rune("\""), Str(f.name), Rune("\""), Str(": &graphql.InputObjectFieldConfig{")>>)
        \o CallIn
        \o CallWriteIndent \o CallWrite("Type: ")
        \o printType(f.type)
        \o CallWrite(",") \o CallWrite("\n")
        \o (IF f.default.k # "nil"
            THEN CallWriteIndent \o CallWrite("DefaultValue: ") \o printVal(f.default)
                    \o CallWrite(",") \o CallWrite("\n")
            ELSE <<>>)
        \o CallOut
        \o (IF ~f.doc.isNil /\ descr THEN printDescr(f.doc) \o CallWrite("\n") ELSE <<>>)
        \o CallP(<<Str("},")>>)

RECURSIVE inputFields(_, _)
inputFields(descr, list) ==
    IF list = <<>> THEN <<>>
    ELSE inputField(descr, Head(list)) \o inputFields(descr, Tail(list))

generateInput(name, descr, doc, ts) ==
    CallP(<<Str("NewInputObject(graphql.InputObjectConfig{")>>)
        \o CallIn
        \o CallP(<<Str("Name: \""), Str(name), Str("\",")>>)
        \o CallP(<<Str("Fields: graphql.InputObjectFieldConfigMap{")>>)
        \o CallIn
        \o inputFields(descr, ts.fields)
        \o CallOut
        \o CallP(<<Str("},")>>)
        \o (IF ~doc.isNil /\ descr THEN printDescr(doc) \o CallWrite("\n") ELSE <<>>)
        \o CallOut
        \o CallP(<<Str("})")>>)

(***************************************************************************)
(* generateDirective                                                       *)
(***************************************************************************)
RECURSIVE directiveLocs(_)
directiveLocs(locs) ==
    IF locs = <<>> THEN <<>>
    ELSE CallP(<<Rune("\""), Str(Head(locs)), Str("\",")>>) \o directiveLocs(Tail(locs))

generateDirective(name, descr, doc, ts) ==
    LET locsLen == Len(ts.locs)
    IN  CallP(<<Str("NewDirective(graphql.DirectiveConfig{")>>)
            \o CallIn
            \o CallP(<<Str("Name: \""), Str(name), Str("\",")>>)
            \o (IF ~doc.isNil /\ descr /\ Len(Text(doc)) > 0
                THEN CallP(<<Str("Description: \"")>> \o TextParts(Text(doc)) \o <<Str("\",")>>)
                ELSE <<>>)
            \o (IF locsLen = 1
                THEN CallP(<<Str("Locations: []string{ "), Str(ts.locs[1]), Str(" }")>>)
                ELSE <<>>)
            \o (IF locsLen > 1
                THEN CallP(<<Str("Locations: []string{")>>)
                        \o CallIn
                        \o directiveLocs(ts.locs)
                        \o CallOut
                        \o CallP(<<Str("},")>>)
                ELSE <<>>)
            \o (IF ~ts.args.isNil
                THEN CallP(<<Str("Args: graphql.FieldConfigArgument{")>>)
                        \o CallIn
                        \o printArgs(descr, ts.args.list)
                        \o CallOut
                        \o CallP(<<Str("},")>>)
                ELSE <<>>)
            \o CallOut
            \o CallP(<<Str("})")>>)

(***************************************************************************)
(* getOptions.  A string the code indexes byte by byte (Options.Package)   *)
(* is a sequence of one-character tokens.                                  *)
(*                                                                         *)
(* A document directive is [name, args]; args is nil or the fields of the  *)
(* object literal of its first argument, each [key, value] with value the  *)
(* raw text of a basic literal.  The invocation blob is the empty string,  *)
(* text that does not decode, or a JSON object that may hold "package"     *)
(* and "descriptions".                                                     *)
(***************************************************************************)
NilErr == [isNil |-> TRUE, msg |-> ""]

Err(msg) == [isNil |-> FALSE, msg |-> msg]

DefaultOptions == [Package |-> <<"m", "a", "i", "n">>, Descriptions |-> FALSE]

\* strconv.ParseBool
ParseBool(raw) ==
    IF raw \in {<<"1">>, <<"t">>, <<"T">>, <<"T", "R", "U", "E">>, <<"t", "r", "u", "e">>,
                <<"T", "r", "u", "e">>}
    THEN [b |-> TRUE, err |-> NilErr]
    ELSE IF raw \in {<<"0">>, <<"f">>, <<"F">>, <<"F", "A", "L", "S", "E">>,
                     <<"f", "a", "l", "s", "e">>, <<"F", "a", "l", "s", "e">>}
    THEN [b |-> FALSE, err |-> NilErr]
    ELSE [b |-> FALSE, err |-> Err("strconv.ParseBool: invalid syntax")]

\* the loop over the fields of the directive's object literal
RECURSIVE docOptsFields(_, _)
docOptsFields(gOpts, fields) ==
    IF fields = <<>> THEN [gOpts |-> gOpts, err |-> NilErr]
    ELSE LET arg == Head(fields)
         IN  CASE arg.key = "package" ->
                    docOptsFields([gOpts EXCEPT !.Package = arg.value], Tail(fields))
               [] arg.key = "descriptions" ->
                    LET r == ParseBool(arg.value)
                    IN  IF ~r.err.isNil
                        THEN [gOpts |-> gOpts, err |-> r.err]
                        ELSE docOptsFields([gOpts EXCEPT !.Descriptions = r.b], Tail(fields))
               [] OTHER -> docOptsFields(gOpts, Tail(fields))

\* the loop over doc.Directives
RECURSIVE docDirectives(_, _)
docDirectives(gOpts, directives) ==
    IF directives = <<>> THEN [gOpts |-> gOpts, err |-> NilErr]
    ELSE LET d == Head(directives)
         IN  IF d.name # "go" THEN docDirectives(gOpts, Tail(directives))
             ELSE IF d.args.isNil THEN [gOpts |-> gOpts, err |-> NilErr]
             ELSE LET r == docOptsFields(gOpts, d.args.list)
                  IN  IF ~r.err.isNil THEN r
                      ELSE docDirectives(r.gOpts, Tail(directives))

\* a faulty Unmarshal, which decodes into a zero Options and so resets the
\* fields the blob does not hold
UnmarshalResets(opts, gOpts) ==
    IF ~opts.valid
    THEN [gOpts |-> gOpts, err |-> Err("json: invalid character")]
    ELSE [gOpts |-> [Package |-> IF opts.hasPackage THEN opts.package ELSE <<>>,
                     Descriptions |-> IF opts.hasDescriptions THEN opts.descriptions ELSE FALSE],
          err |-> NilErr]

\* json.Unmarshal([]byte(opts), gOpts)
Unmarshal(opts, gOpts) ==
    IF ~opts.valid
    THEN [gOpts |-> gOpts, err |-> Err("json: invalid character")]
    ELSE [gOpts |-> [Package |-> IF opts.hasPackage THEN opts.package ELSE gOpts.Package,
                     Descriptions |-> IF opts.hasDescriptions THEN opts.descriptions
                                      ELSE gOpts.Descriptions],
          err |-> NilErr]

\* the trim of '"' that ends getOptions; it panics when it indexes or slices
\* out of range
TrimPackage(gOpts) ==
    IF Len(gOpts.Package) = 0
    THEN [gOpts |-> gOpts, panic |-> TRUE]
    ELSE IF gOpts.Package[1] = "\""
    THEN IF Len(gOpts.Package) - 1 < 1
         THEN [gOpts |-> gOpts, panic |-> TRUE]
         ELSE [gOpts |-> [gOpts EXCEPT !.Package = SubSeq(@, 2, Len(@) - 1)],
               panic |-> FALSE]
    ELSE [gOpts |-> gOpts, panic |-> FALSE]

getOptions(doc, opts) ==
    LET r1 == docDirectives(DefaultOptions, doc.Directives)
    IN  IF ~r1.err.isNil
        THEN [gOpts |-> r1.gOpts, err |-> r1.err, panic |-> FALSE]
        ELSE LET r2 == IF opts.len > 0 THEN Unmarshal(opts, r1.gOpts) ELSE r1
             IN  IF ~r2.err.isNil
                 THEN [gOpts |-> r2.gOpts, err |-> r2.err, panic |-> FALSE]
                 ELSE LET r3 == TrimPackage(r2.gOpts)
                      IN  [gOpts |-> r3.gOpts, err |-> NilErr, panic |-> r3.panic]

(***************************************************************************)
(* Generate, piece by piece.  A document is                                *)
(*   [Name |-> [stem, ext], Directives, Types, Schema]                     *)
(* where Types is the list of top-level declarations, each                 *)
(* [spec |-> "TypeSpec" or "TypeExtSpec", decl |-> a declaration], and     *)
(* Schema is nil or points at the schema declaration, which is also an     *)
(* entry of Types.                                                         *)
(***************************************************************************)
packagePrefix == "package "

importStmt == "import \"github.com/graphql-go/graphql\""

newLines == <<"\n", "\n">>

writeHeader(packageName) ==
    CallWrite(packagePrefix) \o CallWriteToks(packageName) \o CallWriteToks(newLines)
        \o CallWrite(importStmt) \o CallWriteToks(newLines)

\* lines 66-73: the header and the forward declaration of Schema
generateHeader(gOpts, doc) ==
    writeHeader(gOpts.Package)
        \o (IF ~doc.Schema.isNil
            THEN CallP(<<Str("var Schema graphql.Schema")>>) \o CallP(<<>>)
            ELSE <<>>)

\* lines 99-114: the switch on the kind of the declaration
generateKind(name, descr, doc, ts) ==
    CASE ts.kind = "scalar" -> generateScalar(name, descr, doc, ts)
      [] ts.kind = "object" -> generateObject(name, descr, doc, ts)
      [] ts.kind = "interface" -> generateInterface(name, descr, doc, ts)
      [] ts.kind = "union" -> generateUnion(name, descr, doc, ts)
      [] ts.kind = "enum" -> generateEnum(name, descr, doc, ts)
      [] ts.kind = "input" -> generateInput(name, descr, doc, ts)
      [] ts.kind = "directive" -> generateDirective(name, descr, doc, ts)
      [] OTHER -> <<>>

\* a faulty iteration, which walks doc.Types from its end
generateTypeFromEnd(gOpts, doc, i) ==
    LET d == doc.Types[Len(doc.Types) - i]
        totalTypes == Len(doc.Types) - 1
    IN  IF d.spec # "TypeSpec" THEN <<>>
        ELSE IF d.decl.kind = "schema" THEN <<>>
        ELSE LET name == d.decl.name
             IN  CallWrite("var") \o CallWrite(" ") \o CallWrite(name) \o CallWrite(typeSuffix)
                    \o CallWrite(" ") \o CallWrite("=") \o CallWrite(" ")
                    \o CallWrite("graphql") \o CallWrite(".")
                    \o generateKind(name, gOpts.Descriptions, d.decl.doc, d.decl)
                    \o (IF i # totalTypes THEN CallP(<<>>) ELSE <<>>)

\* lines 77-119: one iteration of the loop over doc.Types; i counts from 0
generateType(gOpts, doc, i) ==
    LET d == doc.Types[i + 1]
        totalTypes == Len(doc.Types) - 1
    IN  IF d.spec # "TypeSpec" THEN <<>>
        ELSE IF d.decl.kind = "schema" THEN <<>>
        ELSE LET name == d.decl.name
             IN  CallWrite("var") \o CallWrite(" ") \o CallWrite(name) \o CallWrite(typeSuffix)
                    \o CallWrite(" ") \o CallWrite("=") \o CallWrite(" ")
                    \o CallWrite("graphql") \o CallWrite(".")
                    \o generateKind(name, gOpts.Descriptions, d.decl.doc, d.decl)
                    \o (IF i # totalTypes THEN CallP(<<>>) ELSE <<>>)

RECURSIVE schemaRootOps(_)
schemaRootOps(rootOps) ==
    IF rootOps = <<>> THEN <<>>
    ELSE LET op == Head(rootOps)
         IN  CallWriteIndent
                \o (CASE op.name = "query" -> CallWrite("Query: ")
                      [] op.name = "mutation" -> CallWrite("Mutation: ")
                      [] op.name = "subscription" -> CallWrite("Subscription: ")
                      [] OTHER -> <<>>)
                \o CallWrite(op.type) \o CallWrite(typeSuffix)
                \o CallWrite(",") \o CallWrite("\n")
                \o schemaRootOps(Tail(rootOps))

\* a faulty block, written whether the document declares a schema or not
generateSchemaAlways(doc) ==
    CallP(<<>>)
        \o CallP(<<Str("func init() {")>>)
        \o CallIn
        \o CallP(<<Str("var err error")>>)
        \o CallP(<<Str("Schema, err = graphql.NewSchema(graphql.SchemaConfig{")>>)
        \o CallIn
        \o schemaRootOps(doc.Schema.rootOps)
        \o CallOut
        \o CallP(<<Str("})")>>)
        \o CallOut
        \o CallP(<<Str("}")>>)

\* lines 121-160: the init block of the schema
generateSchema(doc) ==
    IF ~doc.Schema.isNil
    THEN CallP(<<>>)
            \o CallP(<<Str("func init() {")>>)
            \o CallIn
            \o CallP(<<Str("var err error")>>)
            \o CallP(<<Str("Schema, err = graphql.NewSchema(graphql.SchemaConfig{")>>)
            \o CallIn
            \o schemaRootOps(doc.Schema.rootOps)
            \o CallOut
            \o CallP(<<Str("})")>>)
            \o CallP(<<Str("if err != nil {")>>)
            \o CallIn
            \o CallP(<<Str("panic(err)")>>)
            \o CallOut
            \o CallP(<<Str("}")>>)
            \o CallOut
            \o CallP(<<Str("}")>>)
    ELSE <<>>

\* the iterations i, i+1, ... of the loop over doc.Types
RECURSIVE generateTypes(_, _, _)
generateTypes(gOpts, doc, i) ==
    IF i >= Len(doc.Types) THEN <<>>
    ELSE generateType(gOpts, doc, i) \o generateTypes(gOpts, doc, i + 1)

\* lines 58-160 for a caller that is alone: the Generator after the reset,
\* the header, the first n declarations and, with all, the schema block
generateText(gen, gOpts, doc) ==
    Exec(Reset(gen), generateHeader(gOpts, doc) \o generateTypes(gOpts, doc, 0) \o generateSchema(doc))

\* lines 166-167: the name Generate opens
goFileName(doc) == doc.Name.stem \o ".go"

DocNameOf(doc) == doc.Name.stem \o doc.Name.ext

\* a faulty wrap, which names the document without its extension
GeneratorErrorStem(doc, err) ==
    IF ~err.isNil
    THEN [isNil |-> FALSE, DocName |-> doc.Name.stem, GenName |-> "go", Msg |-> err.msg]
    ELSE [isNil |-> TRUE, DocName |-> "", GenName |-> "", Msg |-> ""]

\* lines 48-56: the deferred wrap of a non-nil error
GeneratorError(doc, err) ==
    IF ~err.isNil
    THEN [isNil |-> FALSE, DocName |-> DocNameOf(doc), GenName |-> "go", Msg |-> err.msg]
    ELSE [isNil |-> TRUE, DocName |-> "", GenName |-> "", Msg |-> ""]

(***************************************************************************)
(* The inputs the model draws from.                                        *)
(***************************************************************************)
Range(q) == {q[i] : i \in DOMAIN q}

\* the sequences without repetition over S of length at most n
RECURSIVE SeqsUpTo(_, _)
SeqsUpTo(S, n) ==
    IF n = 0 THEN {<<>>}
    ELSE LET prev == SeqsUpTo(S, n - 1)
         IN  prev \cup UNION {{Append(q, x) : x \in S \ Range(q)} : q \in prev}

\* type references of at most d wrappers; NonNull never wraps NonNull
LeafNames == {"Int", "Float", "String", "Boolean", "ID", "Test"}

RECURSIVE TypeRefsUpTo(_)
TypeRefsUpTo(d) ==
    IF d = 0 THEN {Ident(n) : n \in LeafNames}
    ELSE LET prev == TypeRefsUpTo(d - 1)
         IN  prev \cup {ListOf(t) : t \in prev}
                  \cup {NonNullOf(t) : t \in {u \in prev : u.k # "NonNull"}}

TypeRefs == TypeRefsUpTo(MaxDepth)

DocChoices == {NilDoc, DocOf(<<>>), DocOf(<<"A doc.", "\n">>)}

NameLists == SeqsUpTo({"A", "B", "C", "D"}, MaxList)

LocLists == SeqsUpTo({"QUERY", "FIELD", "SCHEMA", "ENUM"}, MaxList)

BasicLits == {BasicLit("1"), BasicLit("2"), BasicLit("\"hello\"")}

ListLits == {ListLit(q) : q \in SeqsUpTo(BasicLits, MaxList)}

InnerLits == {CompositeLit(v) : v \in {BasicLit("1"), ListLit(<<>>), ListLit(<<BasicLit("1"), BasicLit("2")>>)}}

ObjLits ==
    {ObjLit(<<>>)} \cup {ObjLit(<<[key |-> "a", val |-> v]>>) : v \in InnerLits}
        \cup {ObjLit(<<[key |-> "a", val |-> v], [key |-> "b", val |-> w]>>) : v, w \in InnerLits}

Literals ==
    BasicLits \cup ListLits \cup ObjLits
        \cup {CompositeLit(v) : v \in ListLits \cup ObjLits}
        \cup {ListLit(q) : q \in SeqsUpTo(InnerLits, 2)}

DefaultChoices ==
    {NilLit, BasicLit("1"), CompositeLit(ListLit(<<BasicLit("1"), BasicLit("2"), BasicLit("3")>>)),
     CompositeLit(ObjLit(<<[key |-> "a", val |-> CompositeLit(BasicLit("1"))]>>))}

ArgChoices ==
    {InputValue("a", t, d, doc) :
        t \in {Ident("String")}, d \in {NilLit, BasicLit("1")}, doc \in DocChoices}

ArgB == InputValue("b", NonNullOf(Ident("Int")), NilLit, NilDoc)

ArgLists ==
    {NilList, ListPtr(<<>>)} \cup {ListPtr(<<a>>) : a \in ArgChoices}
        \cup {ListPtr(<<a, ArgB>>) : a \in ArgChoices}

FieldChoices ==
    {Field("one", t, args, doc) :
        t \in {Ident("Int"), ListOf(NonNullOf(Ident("Test")))}, args \in ArgLists,
        doc \in DocChoices}

FieldTwo == Field("two", Ident("String"), NilList, DocOf(<<"A doc.", "\n">>))

FieldLists ==
    {<<>>, <<FieldTwo>>} \cup {<<f>> : f \in FieldChoices} \cup {<<f, FieldTwo>> : f \in FieldChoices}

EnumValueLists ==
    LET v(n, doc) == Field(n, Ident(""), NilList, doc)
    IN  {<<>>} \cup {<<v("NORTH", d)>> : d \in DocChoices}
            \cup {<<v("NORTH", d), v("EAST", e)>> : d, e \in DocChoices}

InputFieldChoices ==
    {InputValue("x", t, d, doc) :
        t \in {Ident("Float"), ListOf(Ident("Int"))}, d \in DefaultChoices, doc \in DocChoices}

InputFieldLists ==
    {<<>>} \cup {<<f>> : f \in InputFieldChoices}
        \cup {<<f, InputValue("y", NonNullOf(Ident("Float")), NilLit, NilDoc)>> : f \in InputFieldChoices}

ScalarDecls == {Decl("scalar", "Test", d, <<>>, <<>>, <<>>, <<>>, NilList) : d \in DocChoices}

ObjectDecls ==
    {Decl("object", "Test", d, is, fs, <<>>, <<>>, NilList) :
        d \in DocChoices, is \in NameLists, fs \in {<<>>, <<FieldTwo>>}}
    \cup {Decl("object", "Test", d, is, fs, <<>>, <<>>, NilList) :
        d \in DocChoices, is \in {<<>>, <<"A">>}, fs \in FieldLists}

InterfaceDecls ==
    {Decl("interface", "Test", d, <<>>, fs, <<>>, <<>>, NilList) :
        d \in DocChoices, fs \in FieldLists}

UnionDecls ==
    {Decl("union", "Test", d, <<>>, <<>>, ms, <<>>, NilList) : d \in DocChoices, ms \in NameLists}

EnumDecls ==
    {Decl("enum", "Test", d, <<>>, vs, <<>>, <<>>, NilList) :
        d \in DocChoices, vs \in EnumValueLists}

InputDecls ==
    {Decl("input", "Test", d, <<>>, fs, <<>>, <<>>, NilList) :
        d \in DocChoices, fs \in InputFieldLists}

DirectiveDecls ==
    {Decl("directive", "Test", d, <<>>, <<>>, <<>>, ls, as) :
        d \in DocChoices, ls \in LocLists \ {<<>>}, as \in {NilList, ListPtr(<<ArgB>>)}}
    \cup {Decl("directive", "Test", d, <<>>, <<>>, <<>>, ls, as) :
        d \in DocChoices, ls \in {<<"QUERY">>, <<"QUERY", "FIELD">>}, as \in ArgLists}

(***************************************************************************)
(* Inputs of getOptions.                                                   *)
(***************************************************************************)
Q == "\""

PackageRaws == {<<Q, "p", Q>>, <<Q, Q>>, <<"p">>}

DescriptionsRaws ==
    {<<"t", "r", "u", "e">>, <<"f", "a", "l", "s", "e">>, <<"m", "a", "y", "b", "e">>,
     <<Q, "t", "r", "u", "e", Q>>}

OptFieldLists ==
    LET pk(v) == [key |-> "package", value |-> v]
        ds(v) == [key |-> "descriptions", value |-> v]
        ot == [key |-> "other", value |-> <<"1">>]
    IN  {<<>>} \cup {<<pk(v)>> : v \in PackageRaws} \cup {<<ds(v)>> : v \in DescriptionsRaws}
            \cup {<<pk(v), ds(w)>> : v \in PackageRaws, w \in DescriptionsRaws}
            \cup {<<ds(w), pk(v)>> : v \in PackageRaws, w \in DescriptionsRaws}
            \cup {<<ot, pk(v)>> : v \in PackageRaws}

DirectiveJs == [name |-> "js", args |-> ListPtr(<<[key |-> "package", value |-> <<"j">>]>>)]

GoDirective(args) == [name |-> "go", args |-> args]

OptDirectiveLists ==
    {<<>>, <<DirectiveJs>>, <<GoDirective(NilList)>>}
        \cup {<<GoDirective(ListPtr(fs))>> : fs \in OptFieldLists}
        \cup {<<DirectiveJs, GoDirective(ListPtr(fs))>> : fs \in OptFieldLists}
        \cup {<<GoDirective(ListPtr(fs)), DirectiveJs>> : fs \in OptFieldLists}

EmptyBlob ==
    [len |-> 0, valid |-> TRUE, hasPackage |-> FALSE, package |-> <<>>,
     hasDescriptions |-> FALSE, descriptions |-> FALSE]

InvalidBlob == [EmptyBlob EXCEPT !.len = 1, !.valid = FALSE]

ObjectBlob(hasP, pkg, hasD, descr) ==
    [len |-> 2, valid |-> TRUE, hasPackage |-> hasP, package |-> pkg,
     hasDescriptions |-> hasD, descriptions |-> descr]

BlobPackages == {<<>>, <<"x">>, <<Q>>, <<Q, "x">>, <<Q, "x", Q>>}

OptBlobs ==
    {EmptyBlob, InvalidBlob, ObjectBlob(FALSE, <<>>, FALSE, FALSE)}
        \cup {ObjectBlob(TRUE, v, FALSE, FALSE) : v \in BlobPackages}
        \cup {ObjectBlob(FALSE, <<>>, TRUE, b) : b \in BOOLEAN}
        \cup {ObjectBlob(TRUE, v, TRUE, b) : v \in BlobPackages, b \in BOOLEAN}

(***************************************************************************)
(* Inputs of Generate.                                                     *)
(***************************************************************************)
ADoc == DocOf(<<"A doc.", "\n">>)

TypeSpecOf(decl) == [spec |-> "TypeSpec", decl |-> decl]

SchemaEntry == TypeSpecOf(Decl("schema", "schema", ADoc, <<>>, <<>>, <<>>, <<>>, NilList))

ExtEntry ==
    [spec |-> "TypeExtSpec",
     decl |-> Decl("object", "Query", NilDoc, <<>>, <<FieldTwo>>, <<>>, <<>>, NilList)]

DeclEntries ==
    {TypeSpecOf(Decl("scalar", "Version", ADoc, <<>>, <<>>, <<>>, <<>>, NilList)),
     TypeSpecOf(Decl("object", "Query", ADoc, <<"Node">>,
                     <<Field("hello", Ident("String"), NilList, ADoc)>>, <<>>, <<>>, NilList)),
     TypeSpecOf(Decl("interface", "Node", NilDoc, <<>>,
                     <<Field("id", NonNullOf(Ident("ID")), NilList, NilDoc)>>, <<>>, <<>>, NilList)),
     TypeSpecOf(Decl("union", "SearchResult", ADoc, <<>>, <<>>, <<"Echo", "Result">>, <<>>, NilList)),
     TypeSpecOf(Decl("enum", "Direction", NilDoc, <<>>,
                     <<Field("NORTH", Ident(""), NilList, ADoc)>>, <<>>, <<>>, NilList)),
     TypeSpecOf(Decl("input", "Point", ADoc, <<>>,
                     <<InputValue("x", NonNullOf(Ident("Float")), NilLit, NilDoc)>>, <<>>, <<>>, NilList)),
     TypeSpecOf(Decl("directive", "deprecate", ADoc, <<>>, <<>>, <<>>, <<"SCHEMA", "FIELD">>,
                     ListPtr(<<InputValue("msg", Ident("String"), NilLit, ADoc)>>)))}

\* an input with nested types and with list and object defaults
DefaultsEntry ==
    TypeSpecOf(Decl("input", "Filter", NilDoc, <<>>,
                    <<InputValue("ids", ListOf(NonNullOf(ListOf(Ident("ID")))),
                                 CompositeLit(ListLit(<<BasicLit("1"), BasicLit("2"), BasicLit("3")>>)),
                                 NilDoc),
                      InputValue("at", NonNullOf(Ident("Point")),
                                 CompositeLit(ObjLit(<<[key |-> "x", val |-> CompositeLit(BasicLit("1"))],
                                                       [key |-> "y", val |-> CompositeLit(ListLit(<<>>))]>>)),
                                 NilDoc)>>,
                    <<>>, <<>>, NilList))

\* declarations of further shapes: several interfaces and a field with
\* arguments that have a default and a doc, the same field in an interface,
\* one member, one location and no argument list, no value and a doc without
\* text, a field with an object default and a doc
ShapeEntries ==
    LET a == InputValue("a", Ident("String"), BasicLit("1"), ADoc)
        b == InputValue("b", NonNullOf(Ident("Int")), NilLit, NilDoc)
        one == Field("one", ListOf(NonNullOf(Ident("Test"))), ListPtr(<<a, b>>), ADoc)
        two == Field("two", Ident("String"), ListPtr(<<>>), NilDoc)
        x == InputValue("x", ListOf(Ident("Int")),
                        CompositeLit(ObjLit(<<[key |-> "a", val |-> CompositeLit(BasicLit("1"))]>>)),
                        ADoc)
    IN  {TypeSpecOf(Decl("object", "Test", ADoc, <<"A", "B">>, <<one, two>>, <<>>, <<>>, NilList)),
         TypeSpecOf(Decl("interface", "Test", ADoc, <<>>, <<one, two>>, <<>>, <<>>, NilList)),
         TypeSpecOf(Decl("union", "Test", NilDoc, <<>>, <<>>, <<"A">>, <<>>, NilList)),
         TypeSpecOf(Decl("directive", "Test", NilDoc, <<>>, <<>>, <<>>, <<"QUERY">>, NilList)),
         TypeSpecOf(Decl("enum", "Test", DocOf(<<>>), <<>>, <<>>, <<>>, <<>>, NilList)),
         TypeSpecOf(Decl("input", "Test", ADoc, <<>>, <<x>>, <<>>, <<>>, NilList))}

\* the lists of top-level declarations: the orders of a schema entry, an
\* extension and two declarations, and every kind of declaration alone
TypeLists ==
    LET version == TypeSpecOf(Decl("scalar", "Version", ADoc, <<>>, <<>>, <<>>, <<>>, NilList))
        direction == TypeSpecOf(Decl("enum", "Direction", NilDoc, <<>>,
                                     <<Field("NORTH", Ident(""), NilList, ADoc)>>,
                                     <<>>, <<>>, NilList))
    IN  SeqsUpTo({SchemaEntry, ExtEntry, version, direction}, MaxDecls)
            \cup {<<e>> : e \in DeclEntries \cup {DefaultsEntry} \cup ShapeEntries}

RootOps == <<[name |-> "query", type |-> "Query"], [name |-> "mutation", type |-> "Mutation"]>>

\* the document directives and the invocation blob of a call
DriverOptions ==
    LET pk(v) == [key |-> "package", value |-> v]
        ds(v) == [key |-> "descriptions", value |-> v]
    IN  {[directives |-> <<>>, opts |-> EmptyBlob],
         [directives |-> <<GoDirective(ListPtr(<<pk(<<Q, "p", Q>>), ds(<<"t", "r", "u", "e">>)>>))>>,
          opts |-> EmptyBlob],
         [directives |-> <<GoDirective(ListPtr(<<ds(<<"m", "a", "y", "b", "e">>)>>))>>,
          opts |-> EmptyBlob],
         [directives |-> <<>>, opts |-> InvalidBlob],
         [directives |-> <<>>, opts |-> ObjectBlob(FALSE, <<>>, TRUE, TRUE)],
         [directives |-> <<>>, opts |-> ObjectBlob(TRUE, <<>>, FALSE, FALSE)]}

\* doc.Name, as the file name without its extension and the extension
DocNames == {[stem |-> "test", ext |-> ".gql"], [stem |-> "api", ext |-> ""]}

Document(name, directives, types) ==
    [Name |-> name,
     Directives |-> directives,
     Types |-> types,
     Schema |-> IF SchemaEntry \in Range(types)
                THEN [isNil |-> FALSE, rootOps |-> RootOps]
                ELSE [isNil |-> TRUE, rootOps |-> <<>>]]

\* the arguments of a call of Generate
DriverInputs ==
    {[doc |-> Document(n, o.directives, ts), opts |-> o.opts] :
        n \in DocNames, o \in DriverOptions, ts \in TypeLists}

(***************************************************************************)
(* Generate as a state machine: callers p of one Generator.                *)
(*                                                                         *)
(* The arguments of a call are first read by getOptions, after g.Reset();  *)
(* the model binds them at the reset.  The locals and the sink of a call   *)
(* are dropped when it returns; result holds what the call that has just   *)
(* ended gave back and is cleared by the next step.                        *)
(***************************************************************************)
Procs == 1..NumProcs

NoDocument == Document([stem |-> "", ext |-> ""], <<>>, <<>>)

NoCall ==
    [doc |-> NoDocument, opts |-> EmptyBlob, gOpts |-> DefaultOptions, i |-> 0,
     err |-> NilErr, failed |-> "none", file |-> "unset", panic |-> FALSE,
     residue |-> FALSE]

NoSink == [opens |-> 0, name |-> "", data |-> <<>>, writes |-> 0, closes |-> 0]

\* what a call gave back (kind, err), with what the caller and the sink know
\* of it: the name of the document passed, the error of the failed step,
\* and the sink's counts
NoResult ==
    [p |-> 0, kind |-> "none", err |-> GeneratorError(NoDocument, NilErr),
     docName |-> "", cause |-> NilErr, failed |-> "none",
     opens |-> 0, wrote |-> 0, closes |-> 0]

InitGenerate ==
    /\ mutex = 0
    /\ g = EmptyG
    /\ pc = [p \in Procs |-> "idle"]
    /\ call = [p \in Procs |-> NoCall]
    /\ sink = [p \in Procs |-> NoSink]
    /\ result = NoResult

NoOptIn == [doc |-> NoDocument, opts |-> EmptyBlob]

NoOptOut == [stage |-> "idle", gOpts |-> DefaultOptions, err |-> NilErr, panic |-> FALSE]

InitOptions == optIn = NoOptIn /\ optOut = NoOptOut

NoEmit ==
    [op |-> "none", name |-> "", descr |-> FALSE, doc |-> NilDoc,
     ts |-> Decl("none", "", NilDoc, <<>>, <<>>, <<>>, <<>>, NilList),
     typ |-> Ident(""), val |-> NilLit]

InitEmit == emitIn = NoEmit

Init == InitGenerate /\ InitOptions /\ InitEmit

\* the caller calls g.Generate(ctx, doc, opts)
Call(p) ==
    /\ pc[p] = "idle"
    /\ pc' = [pc EXCEPT ![p] = "lock"]
    /\ result' = NoResult
    /\ UNCHANGED <<mutex, g, call, sink, optIn, optOut, emitIn>>

\* a faulty Lock, which does not wait for the mutex
LockNoWait(p) ==
    /\ pc[p] = "lock"
    /\ mutex' = p
    /\ pc' = [pc EXCEPT ![p] = "reset"]
    /\ result' = NoResult
    /\ UNCHANGED <<g, call, sink, optIn, optOut, emitIn>>

\* line 47: g.Lock()
Lock(p) ==
    /\ pc[p] = "lock"
    /\ mutex = 0
    /\ mutex' = p
    /\ pc' = [pc EXCEPT ![p] = "reset"]
    /\ result' = NoResult
    /\ UNCHANGED <<g, call, sink, optIn, optOut, emitIn>>

\* line 58: g.Reset(), for a call whose arguments are among inputs
ResetWith(p, inputs) ==
    /\ pc[p] = "reset"
    /\ \E in \in inputs :
          call' = [call EXCEPT ![p] = [NoCall EXCEPT !.doc = in.doc, !.opts = in.opts,
                                                       !.residue = g.buf # <<>>]]
    /\ g' = Reset(g)
    /\ sink' = [sink EXCEPT ![p] = NoSink]
    /\ pc' = [pc EXCEPT ![p] = "opts"]
    /\ result' = NoResult
    /\ UNCHANGED <<mutex, optIn, optOut, emitIn>>

ResetStep(p) == ResetWith(p, DriverInputs)

\* a faulty step, which writes the header before it returns the error
GetOptionsStepLate(p) ==
    /\ pc[p] = "opts"
    /\ LET r == getOptions(call[p].doc, call[p].opts)
       IN  IF r.panic
           THEN /\ call' = [call EXCEPT ![p].panic = TRUE, ![p].failed = "options-panic"]
                /\ pc' = [pc EXCEPT ![p] = "return"]
                /\ g' = g
           ELSE IF ~r.err.isNil
           THEN /\ call' = [call EXCEPT ![p].err = r.err, ![p].failed = "options"]
                /\ pc' = [pc EXCEPT ![p] = "return"]
                /\ g' = Exec(g, writeHeader(r.gOpts.Package))
           ELSE /\ call' = [call EXCEPT ![p].gOpts = r.gOpts]
                /\ pc' = [pc EXCEPT ![p] = "header"]
                /\ g' = g
    /\ result' = NoResult
    /\ UNCHANGED <<mutex, sink, optIn, optOut, emitIn>>

\* lines 60-64: getOptions and the return of its error
GetOptionsStep(p) ==
    /\ pc[p] = "opts"
    /\ LET r == getOptions(call[p].doc, call[p].opts)
       IN  IF r.panic
           THEN /\ call' = [call EXCEPT ![p].panic = TRUE, ![p].failed = "options-panic"]
                /\ pc' = [pc EXCEPT ![p] = "return"]
           ELSE IF ~r.err.isNil
           THEN /\ call' = [call EXCEPT ![p].err = r.err, ![p].failed = "options"]
                /\ pc' = [pc EXCEPT ![p] = "return"]
           ELSE /\ call' = [call EXCEPT ![p].gOpts = r.gOpts]
                /\ pc' = [pc EXCEPT ![p] = "header"]
    /\ result' = NoResult
    /\ UNCHANGED <<mutex, g, sink, optIn, optOut, emitIn>>

\* lines 66-73
HeaderStep(p) ==
    /\ pc[p] = "header"
    /\ g' = Exec(g, generateHeader(call[p].gOpts, call[p].doc))
    /\ pc' = [pc EXCEPT ![p] = "types"]
    /\ result' = NoResult
    /\ UNCHANGED <<mutex, call, sink, optIn, optOut, emitIn>>

\* lines 77-119: one iteration of the loop
TypeStep(p) ==
    /\ pc[p] = "types"
    /\ call[p].i < Len(call[p].doc.Types)
    /\ g' = Exec(g, generateType(call[p].gOpts, call[p].doc, call[p].i))
    /\ call' = [call EXCEPT ![p].i = @ + 1]
    /\ result' = NoResult
    /\ UNCHANGED <<mutex, pc, sink, optIn, optOut, emitIn>>

\* lines 121-160, once the loop has ended
SchemaStep(p) ==
    /\ pc[p] = "types"
    /\ call[p].i >= Len(call[p].doc.Types)
    /\ g' = Exec(g, generateSchema(call[p].doc))
    /\ pc' = [pc EXCEPT ![p] = "open"]
    /\ result' = NoResult
    /\ UNCHANGED <<mutex, call, sink, optIn, optOut, emitIn>>

\* lines 162-171: gCtx.Open, defer goFile.Close(), the return of its error.
\* The sink gives back a file or an error; with the error it gives back a
\* nil io.WriteCloser, on which the defer statement panics, or a value that
\* can be closed.
OpenStep(p) ==
    /\ pc[p] = "open"
    /\ sink' = [sink EXCEPT ![p].opens = @ + 1, ![p].name = goFileName(call[p].doc)]
    /\ \E outcome \in {"ok", "error", "error-nil"} :
          CASE outcome = "ok" ->
                  /\ call' = [call EXCEPT ![p].file = "open"]
                  /\ pc' = [pc EXCEPT ![p] = "write"]
            [] outcome = "error" ->
                  /\ call' = [call EXCEPT ![p].file = "invalid", ![p].err = Err("open failed"),
                                          ![p].failed = "open"]
                  /\ pc' = [pc EXCEPT ![p] = "return"]
            [] outcome = "error-nil" ->
                  /\ call' = [call EXCEPT ![p].file = "nil", ![p].err = Err("open failed"),
                                          ![p].failed = "open", ![p].panic = TRUE]
                  /\ pc' = [pc EXCEPT ![p] = "return"]
    /\ result' = NoResult
    /\ UNCHANGED <<mutex, g, optIn, optOut, emitIn>>

\* lines 173-175: g.WriteTo(goFile); the sink takes all the bytes, or takes
\* the first m of them and fails
WriteStep(p) ==
    /\ pc[p] = "write"
    /\ \E outcome \in {"ok", "error"}, m \in {0, 1} :
          IF outcome = "ok"
          THEN /\ sink' = [sink EXCEPT ![p].writes = @ + 1, ![p].data = @ \o g.buf]
               /\ g' = [g EXCEPT !.buf = <<>>]
               /\ UNCHANGED call
          ELSE /\ sink' = [sink EXCEPT ![p].writes = @ + 1,
                                       ![p].data = @ \o SubSeq(g.buf, 1, m)]
               /\ g' = [g EXCEPT !.buf = SubSeq(@, m + 1, Len(@))]
               /\ call' = [call EXCEPT ![p].err = Err("write failed"), ![p].failed = "write"]
    /\ pc' = [pc EXCEPT ![p] = "return"]
    /\ result' = NoResult
    /\ UNCHANGED <<mutex, optIn, optOut, emitIn>>

\* a faulty return, which unlocks only when the call has not failed
ReturnStepKeepsLock(p) ==
    /\ pc[p] = "return"
    /\ mutex' = IF call[p].failed = "none" THEN 0 ELSE mutex
    /\ result' = [NoResult EXCEPT !.p = p, !.kind = "return", !.failed = call[p].failed]
    /\ call' = [call EXCEPT ![p] = NoCall]
    /\ sink' = [sink EXCEPT ![p] = NoSink]
    /\ pc' = [pc EXCEPT ![p] = "idle"]
    /\ UNCHANGED <<g, optIn, optOut, emitIn>>

\* the deferred calls, last first: goFile.Close() (line 168), g.Unlock()
\* (line 57), the wrap of the error (lines 48-56); then the caller has the
\* result, or the panic
ReturnStep(p) ==
    /\ pc[p] = "return"
    /\ mutex' = 0
    /\ LET closes == IF call[p].file \in {"open", "invalid"} THEN sink[p].closes + 1
                     ELSE sink[p].closes
       IN  result' = [p |-> p,
                      kind |-> IF call[p].panic THEN "panic" ELSE "return",
                      err |-> GeneratorError(call[p].doc, call[p].err),
                      docName |-> DocNameOf(call[p].doc),
                      cause |-> call[p].err,
                      failed |-> call[p].failed,
                      opens |-> sink[p].opens,
                      wrote |-> Len(sink[p].data),
                      closes |-> closes]
    /\ call' = [call EXCEPT ![p] = NoCall]
    /\ sink' = [sink EXCEPT ![p] = NoSink]
    /\ pc' = [pc EXCEPT ![p] = "idle"]
    /\ UNCHANGED <<g, optIn, optOut, emitIn>>

Next ==
    \E p \in Procs :
        \/ Call(p)
        \/ Lock(p)
        \/ ResetStep(p)
        \/ GetOptionsStep(p)
        \/ HeaderStep(p)
        \/ TypeStep(p)
        \/ SchemaStep(p)
        \/ OpenStep(p)
        \/ WriteStep(p)
        \/ ReturnStep(p)

Spec == Init /\ [][Next]_vars

\* the arguments of the calls that are followed to their end: a document
\* with a schema between two declarations, the input with nested types and
\* defaults, a directive that does not resolve and a blob whose package is
\* empty
LiveInputs ==
    LET name == [stem |-> "test", ext |-> ".gql"]
        version == TypeSpecOf(Decl("scalar", "Version", ADoc, <<>>, <<>>, <<>>, <<>>, NilList))
        maybe == GoDirective(ListPtr(<<[key |-> "descriptions", value |-> <<"m", "a", "y", "b", "e">>]>>))
    IN  {[doc |-> Document(name, <<>>, <<version, SchemaEntry, DefaultsEntry>>), opts |-> EmptyBlob],
         [doc |-> Document(name, <<>>, <<DefaultsEntry>>), opts |-> EmptyBlob],
         [doc |-> Document(name, <<maybe>>, <<version>>), opts |-> EmptyBlob],
         [doc |-> Document(name, <<>>, <<version>>), opts |-> ObjectBlob(TRUE, <<>>, FALSE, FALSE)]}

ResetStepLive(p) == ResetWith(p, LiveInputs)

\* the steps of a call that holds the mutex: none of them waits
Proceed(p) ==
    \/ ResetStepLive(p)
    \/ GetOptionsStep(p)
    \/ HeaderStep(p)
    \/ TypeStep(p)
    \/ SchemaStep(p)
    \/ OpenStep(p)
    \/ WriteStep(p)
    \/ ReturnStep(p)

\* Generate under a fair scheduler: a call that holds the mutex goes on (the
\* sink gives its answers), and a caller that waits in g.Lock() is not passed
\* over for ever: sync.Mutex hands the mutex to a waiter that has waited long
\* (its starvation mode).  A caller need not call.
NextLive == \E p \in Procs : Call(p) \/ Lock(p) \/ Proceed(p)

SpecLive ==
    /\ Init /\ [][NextLive]_vars
    /\ \A p \in Procs : WF_vars(Proceed(p)) /\ SF_vars(Lock(p))

(***************************************************************************)
(* getOptions alone, stage by stage: the directives of the document, the   *)
(* invocation blob, the trim of the package.                               *)
(***************************************************************************)
\* lines 847-849: the call, and gOpts with its defaults
OptCall ==
    /\ optOut.stage = "idle"
    /\ \E ds \in OptDirectiveLists, blob \in OptBlobs :
          optIn' = [doc |-> Document([stem |-> "test", ext |-> ".gql"], ds, <<>>), opts |-> blob]
    /\ optOut' = [NoOptOut EXCEPT !.stage = "directives"]
    /\ UNCHANGED <<mutex, g, pc, call, sink, result, emitIn>>

\* lines 851-878
OptDirectives ==
    /\ optOut.stage = "directives"
    /\ LET r == docDirectives(optOut.gOpts, optIn.doc.Directives)
       IN  optOut' = [optOut EXCEPT !.gOpts = r.gOpts, !.err = r.err,
                                    !.stage = IF r.err.isNil THEN "blob" ELSE "done"]
    /\ UNCHANGED <<mutex, g, pc, call, sink, result, optIn, emitIn>>

\* lines 880-886
OptBlob ==
    /\ optOut.stage = "blob"
    /\ LET r == IF optIn.opts.len > 0 THEN Unmarshal(optIn.opts, optOut.gOpts)
                ELSE [gOpts |-> optOut.gOpts, err |-> NilErr]
       IN  optOut' = [optOut EXCEPT !.gOpts = r.gOpts, !.err = r.err,
                                    !.stage = IF r.err.isNil THEN "trim" ELSE "done"]
    /\ UNCHANGED <<mutex, g, pc, call, sink, result, optIn, emitIn>>

\* lines 888-892
OptTrim ==
    /\ optOut.stage = "trim"
    /\ LET r == TrimPackage(optOut.gOpts)
       IN  optOut' = [optOut EXCEPT !.gOpts = r.gOpts, !.panic = r.panic, !.stage = "done"]
    /\ UNCHANGED <<mutex, g, pc, call, sink, result, optIn, emitIn>>

\* the caller has what getOptions gave back
OptReturn ==
    /\ optOut.stage = "done"
    /\ optIn' = NoOptIn
    /\ optOut' = NoOptOut
    /\ UNCHANGED <<mutex, g, pc, call, sink, result, emitIn>>

NextOpts == OptCall \/ OptDirectives \/ OptBlob \/ OptTrim \/ OptReturn

SpecOpts == Init /\ [][NextOpts]_vars

(***************************************************************************)
(* One emitter or printer alone, on a Generator of its own, as the tests   *)
(* of the package call them.                                               *)
(***************************************************************************)
EmitDecl(decls) ==
    /\ emitIn.op = "none"
    /\ \E ts \in decls, descr \in BOOLEAN :
          /\ emitIn' = [NoEmit EXCEPT !.op = ts.kind, !.name = ts.name, !.descr = descr,
                                      !.doc = ts.doc, !.ts = ts]
          /\ g' = Exec(EmptyG, generateKind(ts.name, descr, ts.doc, ts))
    /\ UNCHANGED <<mutex, pc, call, sink, result, optIn, optOut>>

EmitScalar == EmitDecl(ScalarDecls)

EmitObject == EmitDecl(ObjectDecls)

EmitInterface == EmitDecl(InterfaceDecls)

EmitUnion == EmitDecl(UnionDecls)

EmitEnum == EmitDecl(EnumDecls)

EmitInput == EmitDecl(InputDecls)

EmitDirective == EmitDecl(DirectiveDecls)

EmitType ==
    /\ emitIn.op = "none"
    /\ \E typ \in TypeRefs :
          /\ emitIn' = [NoEmit EXCEPT !.op = "printType", !.typ = typ]
          /\ g' = Exec(EmptyG, printType(typ))
    /\ UNCHANGED <<mutex, pc, call, sink, result, optIn, optOut>>

EmitVal ==
    /\ emitIn.op = "none"
    /\ \E val \in Literals :
          /\ emitIn' = [NoEmit EXCEPT !.op = "printVal", !.val = val]
          /\ g' = Exec(EmptyG, printVal(val))
    /\ UNCHANGED <<mutex, pc, call, sink, result, optIn, optOut>>

\* the test ends and its Generator with it
EmitDone ==
    /\ emitIn.op # "none"
    /\ emitIn' = NoEmit
    /\ g' = EmptyG
    /\ UNCHANGED <<mutex, pc, call, sink, result, optIn, optOut>>

NextEmit ==
    \/ EmitScalar
    \/ EmitObject
    \/ EmitInterface
    \/ EmitUnion
    \/ EmitEnum
    \/ EmitInput
    \/ EmitDirective
    \/ EmitType
    \/ EmitVal
    \/ EmitDone

SpecEmit == Init /\ [][NextEmit]_vars

(***************************************************************************)
(* The properties.                                                         *)
(***************************************************************************)

(***************************************************************************)
(* C1.  What the sources of an option say, read from the arguments alone.  *)
(***************************************************************************)
\* the fields of the object argument of the document's go directive
GoFields(doc) ==
    LET ds == doc.Directives
        idx == {i \in DOMAIN ds : ds[i].name = "go"}
    IN  IF idx = {} THEN <<>> ELSE ds[CHOOSE i \in idx : TRUE].args.list

Sets(fields, key) == \E i \in DOMAIN fields : fields[i].key = key

ValueOf(fields, key) == fields[CHOOSE i \in DOMAIN fields : fields[i].key = key].value

\* the string a literal denotes: its text, without the quotes of a string
\* literal
StringValue(raw) ==
    IF Len(raw) >= 2 /\ raw[1] = Q /\ raw[Len(raw)] = Q
    THEN SubSeq(raw, 2, Len(raw) - 1)
    ELSE raw

BlobHas(in, key) ==
    in.opts.len > 0 /\ IF key = "package" THEN in.opts.hasPackage ELSE in.opts.hasDescriptions

\* the package by precedence, as its source wrote it
PickedPackageText(in) ==
    IF BlobHas(in, "package") THEN in.opts.package
    ELSE IF Sets(GoFields(in.doc), "package") THEN ValueOf(GoFields(in.doc), "package")
    ELSE <<"m", "a", "i", "n">>

\* the package by precedence, as a value
PickedPackage(in) ==
    IF BlobHas(in, "package") THEN in.opts.package
    ELSE IF Sets(GoFields(in.doc), "package")
    THEN StringValue(ValueOf(GoFields(in.doc), "package"))
    ELSE <<"m", "a", "i", "n">>

PickedDescriptions(in) ==
    IF BlobHas(in, "descriptions") THEN in.opts.descriptions
    ELSE IF Sets(GoFields(in.doc), "descriptions")
    THEN ValueOf(GoFields(in.doc), "descriptions") = <<"t", "r", "u", "e">>
    ELSE FALSE

OptionsReturned == optOut.stage = "done" /\ optOut.err.isNil /\ ~optOut.panic

\* a package text that is not empty and whose leading quote, if it has one,
\* has a trailing one
QuotesMatch(text) == text # <<>> /\ (text[1] = Q => Len(text) >= 2 /\ text[Len(text)] = Q)

\* C1 as stated: every effective option equals the blob's value if the blob
\* holds the field, else the directive's value if the directive sets it, else
\* the default.  (Stated for the package texts whose quotes match.)
C1_EffectiveIsPicked ==
    (OptionsReturned /\ QuotesMatch(PickedPackageText(optIn))) =>
        /\ optOut.gOpts.Package = PickedPackage(optIn)
        /\ optOut.gOpts.Descriptions = PickedDescriptions(optIn)

\* C1, amended: when the directive and the blob have been read without
\* failure, and before the package is trimmed, each option equals the blob's
\* value if the blob holds the field, else what the directive wrote for it if
\* the directive sets it, else the default; a field the blob does not hold
\* keeps the value it had.  The options returned have that descriptions
\* value, and have that package text without its surrounding quotes whenever
\* the text is not empty and its leading quote, if any, has a trailing one.
C1_PrecedenceBeforeTrim ==
    /\ optOut.stage = "trim" =>
          /\ optOut.gOpts.Package = PickedPackageText(optIn)
          /\ optOut.gOpts.Descriptions = PickedDescriptions(optIn)
    /\ OptionsReturned =>
          /\ optOut.gOpts.Descriptions = PickedDescriptions(optIn)
          /\ LET text == PickedPackageText(optIn)
             IN  QuotesMatch(text) => optOut.gOpts.Package = StringValue(text)

\* the three sources at once: the directive sets both fields, the blob holds
\* descriptions only and says the opposite of the directive
C1_Witness ==
    /\ OptionsReturned
    /\ Sets(GoFields(optIn.doc), "package")
    /\ Sets(GoFields(optIn.doc), "descriptions")
    /\ BlobHas(optIn, "descriptions")
    /\ ~BlobHas(optIn, "package")
    /\ optOut.gOpts = [Package |-> <<"p">>, Descriptions |-> FALSE]
    /\ ValueOf(GoFields(optIn.doc), "descriptions") = <<"t", "r", "u", "e">>

(***************************************************************************)
(* C2.                                                                     *)
(***************************************************************************)
\* the arguments on which option resolution fails: a descriptions field of
\* the go directive that is no boolean, or a blob that does not decode
BadOptions(doc, opts) ==
    \/ /\ Sets(GoFields(doc), "descriptions")
       /\ ValueOf(GoFields(doc), "descriptions") \notin
              {<<"t", "r", "u", "e">>, <<"f", "a", "l", "s", "e">>}
    \/ opts.len > 0 /\ ~opts.valid

\* C2: when option resolution fails, the call is returning an error, no
\* declaration has been visited, the buffer holds no text, the sink has not
\* been asked to open and has no bytes; and that is what the caller gets.
C2_OptionFailureIsAtomic ==
    /\ \A p \in Procs :
          (BadOptions(call[p].doc, call[p].opts) /\ pc[p] \notin {"idle", "lock", "reset", "opts"})
             => /\ pc[p] = "return"
                /\ call[p].failed = "options"
                /\ ~call[p].err.isNil
                /\ ~call[p].panic
                /\ call[p].i = 0
                /\ g.buf = <<>>
                /\ sink[p].opens = 0
                /\ sink[p].data = <<>>
    /\ result.failed = "options" =>
          /\ result.kind = "return"
          /\ ~result.err.isNil
          /\ result.opens = 0
          /\ result.wrote = 0
          /\ g.buf = <<>>

\* a call that fails in option resolution on a Generator whose buffer the
\* call before had left full
C2_Witness ==
    \E p \in Procs :
        /\ pc[p] = "return"
        /\ call[p].failed = "options"
        /\ call[p].residue
        /\ call[p].opts.len > 0

(***************************************************************************)
(* C3.                                                                     *)
(***************************************************************************)
\* C3: an error Generate returns names the document passed, the backend "go"
\* and the message of the error of the step that failed, whichever step it
\* was; the error is nil exactly when no step failed.
C3_ErrorsAreWrapped ==
    result.kind = "return" =>
        /\ result.err.isNil <=> result.failed = "none"
        /\ result.failed = "none" <=> result.cause.isNil
        /\ result.failed \in {"none", "options", "open", "write"}
        /\ result.failed = "open" => result.cause.msg = "open failed"
        /\ result.failed = "write" => result.cause.msg = "write failed"
        /\ result.failed = "options" =>
              result.cause.msg \in {"strconv.ParseBool: invalid syntax", "json: invalid character"}
        /\ ~result.err.isNil =>
              result.err = [isNil |-> FALSE, DocName |-> result.docName, GenName |-> "go",
                            Msg |-> result.cause.msg]

\* the sink has taken one byte and failed; the document has an extension
C3_Witness ==
    /\ result.kind = "return"
    /\ result.failed = "write"
    /\ result.wrote = 1
    /\ result.docName = "test.gql"
    /\ result.err.Msg = "write failed"

(***************************************************************************)
(* C4.                                                                     *)
(***************************************************************************)
\* from its reset to its return a call holds the mutex
Holding(p) == pc[p] \in {"reset", "opts", "header", "types", "open", "write", "return"}

\* the text of Generate(doc, opts) on a Generator of its own, with no other
\* caller
AloneOutput(doc, opts) == generateText(EmptyG, getOptions(doc, opts).gOpts, doc).buf

HandedOff(p) == pc[p] = "return" /\ call[p].failed = "none"

C4_OneAtATime ==
    /\ \A p, q \in Procs : (Holding(p) /\ Holding(q)) => p = q
    /\ \A p \in Procs : Holding(p) => mutex = p
    /\ \A p \in Procs : HandedOff(p) => sink[p].data = AloneOutput(call[p].doc, call[p].opts)

C4_NoForeignWrite ==
    \A p \in Procs :
        (Holding(p) /\ g' # g) => (pc'[p] # pc[p] \/ call'[p] # call[p])

\* C4: at most one call is between its reset and its return; while a call
\* is there, the buffer and the indent change only by its own steps; the
\* text it hands to its sink is the text it would produce alone.
C4_Serialized == []C4_OneAtATime /\ [][C4_NoForeignWrite]_vars

\* one caller is in the loop over the declarations, past the first, while
\* another waits for the mutex
C4_Witness ==
    \E p, q \in Procs :
        /\ p # q
        /\ pc[p] = "types"
        /\ call[p].i >= 1
        /\ g.indent = 0
        /\ Len(g.buf) > 0
        /\ pc[q] = "lock"

(***************************************************************************)
(* C5.                                                                     *)
(***************************************************************************)
\* C5: whatever the calls before have left in the Generator, the buffer is
\* empty and the indent is none once the call has reset it, and the bytes
\* handed to the sink are those a Generator that has served no call produces
\* from the same document and blob.
C5_OutputIgnoresPriorState ==
    \A p \in Procs :
        /\ pc[p] = "opts" => g = EmptyG
        /\ HandedOff(p) =>
              Bytes(sink[p].data) = Bytes(AloneOutput(call[p].doc, call[p].opts))

\* a call that has handed off its text, on a Generator whose buffer the call
\* before had left full
C5_Witness ==
    \E p \in Procs :
        /\ HandedOff(p)
        /\ call[p].residue
        /\ Len(sink[p].data) > 0
        /\ Len(call[p].doc.Types) >= 2

(***************************************************************************)
(* Reading a text back.                                                    *)
(***************************************************************************)
\* the members of a set of numbers, in increasing order
SortedSeq(S) ==
    [k \in 1..Cardinality(S) |-> CHOOSE i \in S : Cardinality({j \in S : j < i}) = k - 1]

\* the lines of a text that ends with a line terminator, each as its tokens
TokLines(toks) ==
    LET nl == SortedSeq({i \in 1..Len(toks) : toks[i] = "\n"})
    IN  [k \in 1..Len(nl) |-> SubSeq(toks, IF k = 1 THEN 1 ELSE nl[k - 1] + 1, nl[k] - 1)]

\* the tabs a line starts with, and what follows them
Depth(line) == Cardinality({i \in 1..Len(line) : \A j \in 1..i : line[j] = "\t"})

Body(line) == SubSeq(line, Depth(line) + 1, Len(line))

(***************************************************************************)
(* C6.                                                                     *)
(***************************************************************************)
\* where the text declares a variable, and the names it declares, in order
VarAt(toks) == {i \in 1..(Len(toks) - 3) : toks[i] = "var" /\ toks[i + 1] = " "}

VarNames(toks) == [k \in 1..Cardinality(VarAt(toks)) |-> toks[SortedSeq(VarAt(toks))[k] + 2]]

\* the names of the declarations of a document, the schema declaration left
\* out, in the order of the document
IsEmittedDecl(e) == e.spec = "TypeSpec" /\ e.decl.kind # "schema"

DeclNames(doc) ==
    LET ds == SelectSeq(doc.Types, IsEmittedDecl)
    IN  [k \in 1..Len(ds) |-> ds[k].decl.name]

\* C6: the text handed to the sink declares the variables of the document's
\* declarations, the schema declaration left out, in the order of the
\* document, each once and each named <name>Type; the schema's init block
\* comes after all of them.
C6_DeclarationOrder ==
    \A p \in Procs :
        HandedOff(p) =>
            LET toks == sink[p].data
                doc == call[p].doc
                inits == {i \in 1..Len(toks) : toks[i] = "func init() {"}
            IN  /\ VarNames(toks) = DeclNames(doc)
                /\ \A i \in VarAt(toks) : toks[i + 3] = "Type"
                /\ \A i, j \in 1..Len(DeclNames(doc)) :
                      DeclNames(doc)[i] = DeclNames(doc)[j] => i = j
                /\ doc.Schema.isNil => inits = {}
                /\ ~doc.Schema.isNil =>
                      /\ Cardinality(inits) = 1
                      /\ \A i \in inits, v \in VarAt(toks) : v < i

\* the schema declaration sits between two declarations
C6_Witness ==
    \E p \in Procs :
        /\ HandedOff(p)
        /\ Len(call[p].doc.Types) = 3
        /\ call[p].doc.Types[2] = SchemaEntry
        /\ VarNames(sink[p].data) = <<"Version", "Direction">>

(***************************************************************************)
(* C7.                                                                     *)
(***************************************************************************)
IsDeclKind(op) ==
    op \in {"scalar", "object", "interface", "union", "enum", "input", "directive"}

\* a doc comment that the option and its text let through
Gated(doc, descr) == descr /\ ~doc.isNil /\ Len(doc.text) > 0

Gate(doc, descr) == IF Gated(doc, descr) THEN doc ELSE NilDoc

GateArgs(args, descr) ==
    [args EXCEPT !.list = [i \in DOMAIN @ |-> [@[i] EXCEPT !.doc = Gate(@, descr)]]]

GateEntry(f, descr) ==
    IF "args" \in DOMAIN f
    THEN [f EXCEPT !.doc = Gate(@, descr), !.args = GateArgs(@, descr)]
    ELSE [f EXCEPT !.doc = Gate(@, descr)]

\* the declaration with no doc comment but those let through
GateDecl(ts, descr) ==
    [ts EXCEPT !.doc = Gate(@, descr),
               !.fields = [i \in DOMAIN @ |-> GateEntry(@[i], descr)],
               !.args = GateArgs(@, descr)]

CountGated(list, descr) == Cardinality({i \in DOMAIN list : Gated(list[i].doc, descr)})

RECURSIVE SumArgs(_, _)
SumArgs(fields, descr) ==
    IF fields = <<>> THEN 0
    ELSE (IF "args" \in DOMAIN Head(fields)
          THEN CountGated(Head(fields).args.list, descr) ELSE 0)
            + SumArgs(Tail(fields), descr)

\* the constructs of a declaration whose doc comment is let through
NumGated(ts, descr) ==
    (IF Gated(ts.doc, descr) THEN 1 ELSE 0) + CountGated(ts.fields, descr)
        + SumArgs(ts.fields, descr) + CountGated(ts.args.list, descr)

\* C7: an emitter writes a Description line for a construct exactly when the
\* descriptions option is true and the doc text of the construct is not
\* empty, and its output is that of the same declaration with every other doc
\* comment absent.
C7_DescriptionGating ==
    IsDeclKind(emitIn.op) =>
        /\ CountTok(g.buf, "Description: \"") = NumGated(emitIn.ts, emitIn.descr)
        /\ Bytes(g.buf) =
              Bytes(Exec(EmptyG, generateKind(emitIn.name, emitIn.descr,
                                              Gate(emitIn.doc, emitIn.descr),
                                              GateDecl(emitIn.ts, emitIn.descr))).buf)

(***************************************************************************)
(* C8.                                                                     *)
(***************************************************************************)
\* the wrappers of a type reference, outermost first, and the name inside
RECURSIVE Wrappers(_)
Wrappers(typ) == IF typ.k = "Ident" THEN <<>> ELSE <<typ.k>> \o Wrappers(typ.of)

RECURSIVE LeafName(_)
LeafName(typ) == IF typ.k = "Ident" THEN typ.name ELSE LeafName(typ.of)

\* C8: printType writes one opening per wrapper, outermost first
\* (graphql.NewList( for a list, graphql.NewNonNull( for a non-null), then the
\* name (graphql.<name> for Int, Float, String, Boolean and ID, <name>Type
\* for any other), then one closing parenthesis per wrapper, and leaves the
\* indent as it was.
C8_TypePrinterStructure ==
    emitIn.op = "printType" =>
        LET w == Wrappers(emitIn.typ)
            n == Len(w)
            leaf == LeafName(emitIn.typ)
        IN  /\ Len(g.buf) = 2 * n + 1
            /\ \A i \in 1..n :
                  g.buf[i] = IF w[i] = "List" THEN "graphql.NewList(" ELSE "graphql.NewNonNull("
            /\ g.buf[n + 1] = IF leaf \in {"Int", "Float", "String", "Boolean", "ID"}
                              THEN "graphql." \o leaf
                              ELSE leaf \o "Type"
            /\ \A i \in (n + 2)..(2 * n + 1) : g.buf[i] = ")"
            /\ g.indent = 0

\* a list of non-null lists of a declared type
C8_Witness ==
    /\ emitIn.op = "printType"
    /\ emitIn.typ = ListOf(NonNullOf(ListOf(Ident("Test"))))
    /\ Bytes(g.buf) = "graphql.NewList(graphql.NewNonNull(graphql.NewList(TestType)))"

(***************************************************************************)
(* C9, C10.                                                                *)
(***************************************************************************)
\* the list an emitter branches on, and the token that opens its field in
\* the one-line form and in the many-line form
BranchList(in) ==
    CASE in.op = "object" -> in.ts.interfaces
      [] in.op = "union" -> in.ts.members
      [] in.op = "directive" -> in.ts.locs

OpenMany(in) ==
    CASE in.op = "object" -> "Interfaces: []*graphql.Interface{"
      [] in.op = "union" -> "Types: []*graphql.Object{"
      [] in.op = "directive" -> "Locations: []string{"

OpenOne(in) == OpenMany(in) \o " "

ClosesOne == {"}", " }", " },"}

\* C9: a list of one entry is written on one line, with the opening brace,
\* the entry and the closing brace; a list of two or more as an opening line,
\* one line per entry in declared order one indent deeper, and a closing
\* line; an object with no interface has no Interfaces field.
C9_CardinalityBranching ==
    emitIn.op \in {"object", "union", "directive"} =>
        LET list == BranchList(emitIn)
            lines == TokLines(g.buf)
            at == {k \in 1..Len(lines) :
                      Body(lines[k]) # <<>> /\ Body(lines[k])[1] \in {OpenOne(emitIn), OpenMany(emitIn)}}
        IN  /\ (Len(list) = 0 /\ emitIn.op = "object") => at = {}
            /\ Len(list) = 1 =>
                  /\ Cardinality(at) = 1
                  /\ \A k \in at :
                        /\ Depth(lines[k]) = 1
                        /\ Body(lines[k])[1] = OpenOne(emitIn)
                        /\ \E i \in 2..Len(Body(lines[k])) : Body(lines[k])[i] = list[1]
                        /\ \E i \in 2..Len(Body(lines[k])) : Body(lines[k])[i] \in ClosesOne
            /\ Len(list) >= 2 =>
                  /\ Cardinality(at) = 1
                  /\ \A k \in at :
                        /\ Depth(lines[k]) = 1
                        /\ Body(lines[k]) = <<OpenMany(emitIn)>>
                        /\ k + Len(list) + 1 <= Len(lines)
                        /\ \A j \in 1..Len(list) :
                              /\ Depth(lines[k + j]) = 2
                              /\ \E i \in 1..Len(Body(lines[k + j])) :
                                    Body(lines[k + j])[i] = list[j]
                        /\ Depth(lines[k + Len(list) + 1]) = 1
                        /\ Body(lines[k + Len(list) + 1]) = <<"},">>

\* the tokens of the Types field of a union, from its opening to its
\* closing, without the line terminators, the tabs and the commas
TypesField(toks) ==
    LET open == CHOOSE i \in 1..Len(toks) :
                    toks[i] \in {"Types: []*graphql.Object{ ", "Types: []*graphql.Object{"}
        close == CHOOSE i \in (open + 1)..Len(toks) :
                    /\ toks[i] \in {" },", "},"}
                    /\ \A j \in (open + 1)..(i - 1) : toks[j] \notin {" },", "},"}
        IsName(t) == t \notin {"\n", "\t", ","}
    IN  SelectSeq(SubSeq(toks, open + 1, close - 1), IsName)

RECURSIVE MemberTypes(_)
MemberTypes(members) ==
    IF members = <<>> THEN <<>>
    ELSE <<Head(members), "Type">> \o MemberTypes(Tail(members))

\* C10: the Types field of a union of one or more members holds, for each
\* member in declared order, the member's name followed by Type.
C10_UnionTypesMembers ==
    (emitIn.op = "union" /\ Len(emitIn.ts.members) >= 1) =>
        TypesField(g.buf) = MemberTypes(emitIn.ts.members)

(***************************************************************************)
(* C11.                                                                    *)
(***************************************************************************)
\* lines, each as its bytes
LineTexts(lines) == [k \in 1..Len(lines) |-> Bytes(lines[k])]

\* the lines of the Fields map of a declaration: from the line that opens it
\* to the line that closes it, one indent deep
FieldsMap(toks) ==
    LET lines == TokLines(toks)
        open == CHOOSE k \in 1..Len(lines) : Body(lines[k]) = <<"Fields: graphql.Fields{">>
        close == CHOOSE k \in (open + 1)..Len(lines) :
                    /\ Depth(lines[k]) = 1 /\ Body(lines[k]) = <<"},">>
                    /\ \A j \in (open + 1)..(k - 1) :
                          ~(Depth(lines[j]) = 1 /\ Body(lines[j]) = <<"},">>)
    IN  SubSeq(lines, open, close)

NotResolveLine(line) ==
    Body(line) # <<"Resolve: func(p graphql.ResolveParams) (interface{}, error) { return nil, nil }, // TODO">>

\* C11: the Fields map that generateInterface writes for a field list is the
\* Fields map that generateObject writes for the same list, without the
\* Resolve lines.
C11_InterfaceFieldsAsObject ==
    emitIn.op = "interface" =>
        LineTexts(FieldsMap(g.buf)) =
            LineTexts(SelectSeq(FieldsMap(Exec(EmptyG, generateObject(emitIn.name, emitIn.descr,
                                                                      emitIn.doc, emitIn.ts)).buf),
                                NotResolveLine))

(***************************************************************************)
(* C12.  The text of a literal, as the contract of printVal words it.      *)
(***************************************************************************)
\* texts in order, with sep between each two of them
RECURSIVE JoinText(_, _)
JoinText(texts, sep) ==
    IF texts = <<>> THEN ""
    ELSE IF Len(texts) = 1 THEN texts[1]
    ELSE texts[1] \o sep \o JoinText(Tail(texts), sep)

\* the object of no pair is emptyObj; every other object is "{ ", the pairs
\* with ", " between them, " }"
RECURSIVE ValueText(_, _)
ValueText(val, emptyObj) ==
    CASE val.k = "BasicLit" -> val.value
      [] val.k = "ListLit" ->
            "[]interface{}{"
                \o JoinText([i \in 1..Len(val.vals) |-> ValueText(val.vals[i], emptyObj)], ", ")
                \o "}"
      [] val.k = "ObjLit" ->
            IF val.fields = <<>> THEN emptyObj
            ELSE "{ "
                    \o JoinText([i \in 1..Len(val.fields) |->
                                    val.fields[i].key \o ": "
                                        \o ValueText(val.fields[i].val, emptyObj)], ", ")
                    \o " }"
      [] val.k = "CompositeLit" -> ValueText(val.value, emptyObj)

\* C12 as stated: printVal copies the raw text of a basic literal; writes a
\* list as its opening, the values in order with ", " between them and none
\* after the last, and its closing (nothing between the two for the empty
\* list); writes an object as "{ ", the key: value pairs in order with ", "
\* between them and none after the last, and " }", whatever the number of
\* pairs.
C12_ValuePrinterAsStated ==
    emitIn.op = "printVal" => Bytes(g.buf) = ValueText(emitIn.val, "{ " \o " }")

\* C12: the same, but the object of no pair is written "{ }", with the one
\* space between its braces.
C12_ValuePrinterSeparators ==
    emitIn.op = "printVal" =>
        /\ Bytes(g.buf) = ValueText(emitIn.val, "{ }")
        /\ g.indent = 0

\* an object of two pairs, the first of them a list of two values
C12_Witness ==
    /\ emitIn.op = "printVal"
    /\ emitIn.val = ObjLit(<<[key |-> "a", val |-> CompositeLit(ListLit(<<BasicLit("1"), BasicLit("2")>>))],
                             [key |-> "b", val |-> CompositeLit(BasicLit("1"))]>>)
    /\ Bytes(g.buf) = "{ a: []interface{}{1, 2}, b: 1 }"

(***************************************************************************)
(* C13.                                                                    *)
(***************************************************************************)
\* the steps of a call, in the order of Generate
PhaseRank(at) ==
    CASE at = "idle" -> 0 [] at = "lock" -> 1 [] at = "reset" -> 2 [] at = "opts" -> 3
      [] at = "header" -> 4 [] at = "types" -> 5 [] at = "open" -> 6 [] at = "write" -> 7
      [] at = "return" -> 8

\* where a text holds the forward declaration of Schema, and the init block
SchemaVarAt(toks) == {i \in 1..Len(toks) : toks[i] = "var Schema graphql.Schema"}

InitAt(toks) == {i \in 1..Len(toks) : toks[i] = "func init() {"}

\* the text starts with the package clause and the import, and nothing of
\* the schema or of a declaration comes before the import
HeaderFirst(toks) ==
    /\ Len(toks) >= 1
    /\ toks[1] = packagePrefix
    /\ \E i \in 2..Len(toks) :
          /\ toks[i] = importStmt
          /\ \A j \in VarAt(toks) \cup SchemaVarAt(toks) \cup InitAt(toks) : i < j

\* the text of a whole document: header, forward declaration of Schema,
\* declarations, init block
Assembled(toks, doc) ==
    /\ HeaderFirst(toks)
    /\ Cardinality(SchemaVarAt(toks)) = (IF doc.Schema.isNil THEN 0 ELSE 1)
    /\ Cardinality(InitAt(toks)) = (IF doc.Schema.isNil THEN 0 ELSE 1)
    /\ \A i \in SchemaVarAt(toks), v \in VarAt(toks) : i < v
    /\ \A i \in InitAt(toks), v \in VarAt(toks) : v < i
    /\ \A i \in InitAt(toks), v \in SchemaVarAt(toks) : v < i
    /\ VarNames(toks) = DeclNames(doc)

\* what the buffer and the sink of a call hold at each of its steps
C13_PhaseTexts ==
    \A p \in Procs :
        /\ pc[p] \in {"opts", "header"} => g.buf = <<>>
        /\ pc[p] = "types" =>
              /\ HeaderFirst(g.buf)
              /\ Cardinality(SchemaVarAt(g.buf)) = (IF call[p].doc.Schema.isNil THEN 0 ELSE 1)
              /\ \A i \in SchemaVarAt(g.buf), v \in VarAt(g.buf) : i < v
              /\ InitAt(g.buf) = {}
              /\ VarNames(g.buf) = DeclNames([call[p].doc EXCEPT
                                                 !.Types = SubSeq(@, 1, call[p].i)])
        /\ pc[p] = "open" => Assembled(g.buf, call[p].doc)
        /\ pc[p] \in {"lock", "reset", "opts", "header", "types", "open"} => sink[p].opens = 0
        /\ HandedOff(p) => (sink[p].opens = 1 /\ Assembled(sink[p].data, call[p].doc))

\* a call moves to a later step, or from its return to idle; the loop over
\* the declarations moves forward
C13_PhaseOrder ==
    \A p \in Procs :
        /\ pc'[p] # pc[p] =>
              \/ PhaseRank(pc'[p]) > PhaseRank(pc[p])
              \/ (pc[p] = "return" /\ pc'[p] = "idle")
        /\ (pc[p] = "types" /\ pc'[p] = "types") => call'[p].i >= call[p].i

C14_SinkFailure ==
    /\ result.failed = "open" =>
          /\ result.kind = "return"
          /\ ~result.err.isNil /\ result.err.Msg = "open failed"
          /\ result.opens = 1
          /\ result.wrote = 0
          /\ result.closes = 0
    /\ result.failed = "write" =>
          /\ result.kind = "return"
          /\ ~result.err.isNil /\ result.err.Msg = "write failed"
          /\ result.opens = 1
    /\ \A p \in Procs :
          pc[p] = "return" =>
              /\ call[p].failed = "open" => (sink[p].writes = 0 /\ sink[p].data = <<>>)
              /\ call[p].failed = "write" => sink[p].writes = 1

(***************************************************************************)
(* C15.                                                                    *)
(***************************************************************************)
\* the lines on which a declaration starts and ends, in order
DeclStarts(lines) ==
    SortedSeq({k \in 1..Len(lines) : Len(lines[k]) >= 2 /\ lines[k][1] = "var" /\ lines[k][2] = " "})

DeclEnds(lines) == SortedSeq({k \in 1..Len(lines) : lines[k] = <<"})">>})

\* the empty lines that follow line k, up to the next line that is not empty
BlanksAfter(lines, k) ==
    Cardinality({j \in (k + 1)..Len(lines) : \A i \in (k + 1)..j : lines[i] = <<>>})

\* C15: in the text handed to the sink each declaration but the last is
\* followed by one empty line and then the next declaration; the last
\* declaration is followed by no empty line of the loop: by the end of the
\* text, or by the one empty line with which the init block starts.
C15_BlankLines ==
    \A p \in Procs :
        HandedOff(p) =>
            LET lines == TokLines(sink[p].data)
                starts == DeclStarts(lines)
                ends == DeclEnds(lines)
                n == Len(DeclNames(call[p].doc))
            IN  /\ Len(starts) = n /\ Len(ends) = n
                /\ \A k \in 1..(n - 1) :
                      /\ BlanksAfter(lines, ends[k]) = 1
                      /\ starts[k + 1] = ends[k] + 2
                /\ n >= 1 =>
                      BlanksAfter(lines, ends[n]) = (IF call[p].doc.Schema.isNil THEN 0 ELSE 1)

(***************************************************************************)
(* C16.                                                                    *)
(***************************************************************************)
\* the lines that hold the description of the declaration itself: one
\* indent deep
DeclDescrAt(lines) ==
    {k \in 1..Len(lines) :
        Depth(lines[k]) = 1 /\ Body(lines[k])[1] = "Description: \""}

\* the lines that open a field of the constructor call: one indent deep,
\* and not the closing of a map
KeyedAt(lines) ==
    {k \in 1..Len(lines) : Depth(lines[k]) = 1 /\ Body(lines[k]) # <<"},">>}

\* C16 as stated: in the output of each of the seven emitters no keyed field
\* of the constructor call comes after the description of the declaration.
C16_DescriptionLast ==
    IsDeclKind(emitIn.op) =>
        LET lines == TokLines(g.buf)
        IN  \A k \in DeclDescrAt(lines), j \in KeyedAt(lines) : j <= k

\* C16: generateObject, generateInterface, generateUnion and generateInput
\* write the description of the declaration as the last keyed field, on the
\* line before the closing; generateScalar, generateEnum and
\* generateDirective write it as the second, right after Name and before
\* Serialize, Values, Locations and Args.  It is written exactly when the
\* option is set and the text is not empty.
C16_DescriptionPlace ==
    IsDeclKind(emitIn.op) =>
        LET lines == TokLines(g.buf)
            at == DeclDescrAt(lines)
            keyed == KeyedAt(lines)
        IN  /\ Cardinality(at) = (IF Gated(emitIn.doc, emitIn.descr) THEN 1 ELSE 0)
            /\ emitIn.op \in {"object", "interface", "union", "input"} =>
                  \A k \in at :
                      /\ k = Len(lines) - 1
                      /\ \A j \in keyed : j <= k
            /\ emitIn.op \in {"scalar", "enum", "directive"} =>
                  \A k \in at :
                      /\ k = 3
                      /\ Body(lines[2])[1] = "Name: \""
                      /\ \A j \in keyed : j >= 2
                      /\ \E j \in keyed : j > k

\* an enum with a description and a value: the description comes before the
\* Values map
C16_Witness ==
    /\ emitIn.op = "enum"
    /\ Gated(emitIn.doc, emitIn.descr)
    /\ Len(emitIn.ts.fields) >= 1
    /\ LET lines == TokLines(g.buf)
       IN  /\ Body(lines[3])[1] = "Description: \""
           /\ Body(lines[4]) = <<"Values: graphql.EnumValueConfigMap{">>

(***************************************************************************)
(* C17.                                                                    *)
(***************************************************************************)
\* C17: when the directive and the blob have been read without failure,
\* getOptions returns (it does not panic), and the package it returns is the
\* package text of the sources without its first and last character if the
\* text has two characters or more and starts and ends with a quote, and the
\* text itself otherwise.
C17_QuoteStripping ==
    (optOut.stage = "done" /\ optOut.err.isNil) =>
        /\ ~optOut.panic
        /\ optOut.gOpts.Package = StringValue(PickedPackageText(optIn))

(***************************************************************************)
(* C18.                                                                    *)
(***************************************************************************)
\* a location as an element of a []string: its tag in quotes
LocElement(loc) == Q \o loc \o Q

\* C18: generateDirective writes each location as its tag in quotes.  A
\* directive of one location has the line Locations: []string{ "TAG" }, and
\* a directive of several has the opening line, one line "TAG", per location
\* in declared order, and the closing line },: in both forms the field ends
\* with a comma and a line terminator.
C18_LocationTokens ==
    emitIn.op = "directive" =>
        LET locs == emitIn.ts.locs
            lines == TokLines(g.buf)
            at == {k \in 1..Len(lines) :
                      /\ Depth(lines[k]) = 1
                      /\ Body(lines[k])[1] \in {"Locations: []string{ ", "Locations: []string{"}}
        IN  /\ Cardinality(at) = 1
            /\ Len(locs) = 1 =>
                  \A k \in at :
                      Bytes(Body(lines[k])) = "Locations: []string{ " \o LocElement(locs[1]) \o " },"
            /\ Len(locs) >= 2 =>
                  \A k \in at :
                      /\ Bytes(Body(lines[k])) = "Locations: []string{"
                      /\ k + Len(locs) + 1 <= Len(lines)
                      /\ \A j \in 1..Len(locs) :
                            /\ Depth(lines[k + j]) = 2
                            /\ Bytes(Body(lines[k + j])) = LocElement(locs[j]) \o ","
                      /\ Depth(lines[k + Len(locs) + 1]) = 1
                      /\ Bytes(Body(lines[k + Len(locs) + 1])) = "},"

(***************************************************************************)
(* C19.                                                                    *)
(***************************************************************************)
\* the arguments of a field, and the type references and the defaults of a
\* declaration: those of its fields, and of their and its own arguments
ArgsOf(f) == IF "args" \in DOMAIN f THEN Range(f.args.list) ELSE {}

DefaultOf(f) == IF "default" \in DOMAIN f THEN {f.default} ELSE {}

DeclInputs(ts) ==
    Range(ts.fields) \cup UNION {ArgsOf(f) : f \in Range(ts.fields)} \cup Range(ts.args.list)

DeclTypeRefs(ts) == {f.type : f \in DeclInputs(ts)}

DeclLiterals(ts) == UNION {DefaultOf(f) : f \in DeclInputs(ts)}

DocDecls(doc) == {e.decl : e \in {d \in Range(doc.Types) : IsEmittedDecl(d)}}

Max(S) == IF S = {} THEN 0 ELSE CHOOSE m \in S : \A n \in S : n <= m

\* the nesting levels of a literal: the lists, the objects and the composite
\* wrappers on its longest way down to a basic literal
RECURSIVE LitLevels(_)
LitLevels(val) ==
    CASE val.k = "BasicLit" -> 0
      [] val.k = "ListLit" -> 1 + Max({LitLevels(v) : v \in Range(val.vals)})
      [] val.k = "ObjLit" -> 1 + Max({LitLevels(f.val) : f \in Range(val.fields)})
      [] val.k = "CompositeLit" -> 1 + LitLevels(val.value)
      [] OTHER -> 0

\* the literals inside a literal, itself not counted
RECURSIVE NestedLits(_)
NestedLits(val) ==
    CASE val.k = "BasicLit" -> 0
      [] val.k = "ListLit" ->
            Len(val.vals)
                + (LET n[i \in 0..Len(val.vals)] ==
                           IF i = 0 THEN 0 ELSE n[i - 1] + NestedLits(val.vals[i])
                   IN  n[Len(val.vals)])
      [] val.k = "ObjLit" ->
            Len(val.fields)
                + (LET n[i \in 0..Len(val.fields)] ==
                           IF i = 0 THEN 0 ELSE n[i - 1] + NestedLits(val.fields[i].val)
                   IN  n[Len(val.fields)])
      [] val.k = "CompositeLit" -> 1 + NestedLits(val.value)
      [] OTHER -> 0

\* a call that holds the mutex has a document whose printers use one call
\* per level (types) and one call per nested literal (values)
PrinterCalls(levelsOnly) ==
    \A p \in Procs :
        Holding(p) =>
            \A ts \in DocDecls(call[p].doc) :
                /\ \A typ \in DeclTypeRefs(ts) : printTypeCalls(typ) = Len(Wrappers(typ))
                /\ \A val \in DeclLiterals(ts) :
                      /\ printValCalls(val) >= LitLevels(val)
                      /\ printValCalls(val) = (IF levelsOnly THEN LitLevels(val)
                                               ELSE NestedLits(val))

\* the call that has just ended, by a return or by a panic, has released
\* the mutex
Released == result.kind # "none" => (mutex = 0 /\ pc[result.p] = "idle")

Completes == \A p \in Procs : Holding(p) ~> (pc[p] = "idle")

Acquires == \A p \in Procs : (pc[p] = "lock") ~> Holding(p)

\* C19 as stated: a call that holds the mutex ends and has then released it,
\* whatever its exit; a caller that waits for the mutex gets it; printType
\* and printVal end, with one recursive call per nesting level of the type
\* or of the literal.
C19_OneCallPerLevel == [](Released /\ PrinterCalls(TRUE)) /\ Completes /\ Acquires

\* C19: the same, but printVal makes one recursive call per literal nested
\* in its argument (each value of a list, each value of a pair of an object,
\* the literal inside a composite literal), which is at least one per
\* nesting level and more for a list or an object of several entries.
C19_TerminatesAndReleases == [](Released /\ PrinterCalls(FALSE)) /\ Completes /\ Acquires

\* a caller waits for the mutex while the call that holds it, on the input
\* with nested types and defaults, is about to return the failure of its
\* write
C19_Witness ==
    \E p, q \in Procs :
        /\ pc[p] = "lock"
        /\ pc[q] = "return"
        /\ call[q].failed = "write"
        /\ call[q].doc.Types = <<DefaultsEntry>>

(***************************************************************************)
(* C20.                                                                    *)
(***************************************************************************)
IsInOut(c) == c.op \in {"In", "Out"}

\* the calls of g.In() among the first k calls of g.In() and g.Out()
InsUpTo(io, k) == Cardinality({i \in 1..k : io[i].op = "In"})

\* calls that, started at some depth, never call g.Out() at that depth, and
\* end at that depth: among the calls of g.In() and g.Out() up to any of
\* them there are no more of g.Out() than of g.In(), and among all of them
\* as many
Balanced(calls) ==
    LET io == SelectSeq(calls, IsInOut)
    IN  /\ \A k \in 1..Len(io) : 2 * InsUpTo(io, k) >= k
        /\ 2 * InsUpTo(io, Len(io)) = Len(io)

\* C20: the calls that Generate makes for each declaration of its document,
\* and for the init block, never call g.Out() at the depth they started at
\* and end at that depth; the indent is none after the header, between two
\* declarations, before and after the init block and when g.WriteTo hands
\* the buffer to the sink.
C20_IndentBalance ==
    \A p \in Procs :
        /\ pc[p] \in {"opts", "header", "types", "open", "write"} => g.indent = 0
        /\ pc[p] \in {"types", "open", "write"} =>
              /\ \A i \in 0..(Len(call[p].doc.Types) - 1) :
                    Balanced(generateType(call[p].gOpts, call[p].doc, i))
              /\ Balanced(generateSchema(call[p].doc))
              /\ Balanced(generateHeader(call[p].gOpts, call[p].doc))

\* the buffer is about to be handed over; it holds an object with two
\* interfaces and a field whose arguments have a default and a description
C20_Witness ==
    \E p \in Procs :
        /\ pc[p] = "write"
        /\ g.indent = 0
        /\ call[p].gOpts.Descriptions
        /\ Len(call[p].doc.Types) = 1
        /\ call[p].doc.Types[1].decl.kind = "object"
        /\ Len(call[p].doc.Types[1].decl.interfaces) = 2
        /\ CountTok(g.buf, "DefaultValue: ") = 1
        /\ CountTok(g.buf, "Description: \"") = 3

(***************************************************************************)
(* C21.                                                                    *)
(***************************************************************************)
\* what the line that opens an entry of a map ends with: a field, an
\* argument, an enum value, an input field
EntryOpeners ==
    {": &graphql.Field{", "\": &graphql.Field{", ": &graphql.ArgumentConfig{",
     ": &graphql.EnumValueConfig{", ": &graphql.InputObjectFieldConfig{"}

\* what a keyed line of an entry starts with
EntryKeys ==
    {"Type: ", "Args: graphql.FieldConfigArgument{", "DefaultValue: ", "Value: \"",
     "Resolve: func(p graphql.ResolveParams) (interface{}, error) { return nil, nil }, // TODO",
     "Description: \""}

\* the indent depth at which each call of a sequence is made, the first of
\* them at depth 0
DepthsOf(calls) ==
    [i \in 1..Len(calls) |->
        Cardinality({j \in 1..(i - 1) : calls[j].op = "In"})
            - Cardinality({j \in 1..(i - 1) : calls[j].op = "Out"})]

\* call i writes the line that opens an entry
OpensEntry(calls, i) ==
    /\ calls[i].op = "P"
    /\ calls[i].parts[Len(calls[i].parts)].val \in EntryOpeners

\* call i writes the `},` of an entry or of a map
ClosesEntry(calls, i) == calls[i] = CallP(<<Str("},")>>)[1]

\* call i starts a keyed line: g.P with the key first, or g.Write(g.indent)
\* with the key written next
StartsKeyed(calls, i) ==
    \/ /\ calls[i].op = "P"
       /\ calls[i].parts[1].val \in EntryKeys
    \/ /\ calls[i].op = "WriteIndent"
       /\ i < Len(calls)
       /\ calls[i + 1].op = "Write"
       /\ calls[i + 1].toks[1] \in EntryKeys

\* the call that closes the entry opened by call i: the first `},` after it
\* written at the depth of call i
EntryClose(calls, i) ==
    LET depth == DepthsOf(calls)
        closes == {j \in (i + 1)..Len(calls) : ClosesEntry(calls, j) /\ depth[j] = depth[i]}
    IN  CHOOSE j \in closes : \A k \in closes : j <= k

\* the keyed lines of the entry opened by call i: those started before its
\* closing that are not lines of an entry of its argument map, which are
\* three levels deeper
EntryKeyed(calls, i) ==
    LET depth == DepthsOf(calls)
    IN  {k \in (i + 1)..(EntryClose(calls, i) - 1) :
            StartsKeyed(calls, k) /\ depth[k] <= depth[i] + 2}

\* C21: in every emitter, each keyed line of an entry (Type, Args,
\* DefaultValue, Resolve, Value, Description) is written one indent level
\* deeper than the line that opens the entry and the `},` that closes it.
C21_EntryIndentation ==
    IsDeclKind(emitIn.op) =>
        LET calls == generateKind(emitIn.name, emitIn.descr, emitIn.doc, emitIn.ts)
            depth == DepthsOf(calls)
        IN  \A i \in 1..Len(calls) :
                OpensEntry(calls, i) =>
                    \A k \in EntryKeyed(calls, i) : depth[k] = depth[i] + 1

====
